---- MODULE Spec2Model ----
(***************************************************************************)
(* Manifest store, referrers index and mark-and-sweep garbage collector    *)
(* of the registry (registry/storage).  The storage driver is a            *)
(* filesystem-like key/value store: files with byte contents below         *)
(* directories.  Digests are "sha256:" followed by the content, an         *)
(* injective stand-in for the hash.                                        *)
(***************************************************************************)
EXTENDS Integers, Sequences, FiniteSets, TLC

VARIABLES store, puts, acked, gc, api

vars == <<store, puts, acked, gc, api>>

----------------------------------------------------------------------------
(* Bounds of the model *)

\* most index entries (historical revisions) kept under one tag
MaxTagHistory == 2

\* most referrers put between two page requests of a client
MaxInsertions == 1

----------------------------------------------------------------------------
(* Media types *)

MediaTypeImageManifest == "application/vnd.oci.image.manifest.v1+json"
MediaTypeImageLayer == "application/vnd.oci.image.layer.v1.tar"
MediaTypeImageConfig == "application/vnd.oci.image.config.v1+json"
MediaTypeOCIArtifactManifest == "application/vnd.oci.artifact.manifest.v1+json"
MediaTypeORASArtifactManifest == "application/vnd.cncf.oras.artifact.manifest.v1+json"
MediaTypeORASDescriptor == "application/vnd.cncf.oras.artifact.descriptor.v1+json"
MediaTypeImageIndex == "application/vnd.oci.image.index.v1+json"
MediaTypeSchema2Manifest == "application/vnd.docker.distribution.manifest.v2+json"
MediaTypeManifestList == "application/vnd.docker.distribution.manifest.list.v2+json"

----------------------------------------------------------------------------
(* Digests and descriptors *)

FromBytes(b) == "sha256:" \o b

Descriptor(mt, b) == [mediaType |-> mt, digest |-> FromBytes(b)]

NoDescriptors == << >>

\* distribution.Descriptor{}
EmptyDescriptor == [mediaType |-> "", digest |-> ""]

----------------------------------------------------------------------------
(* The payloads clients send.  Doc(b) is the JSON document the bytes b hold  *)
(* (json = FALSE for an opaque layer or signature blob).  An optional field  *)
(* (config, subject) is a sequence of at most one descriptor.                *)

OpaqueDoc ==
    [json |-> FALSE, schemaVersion |-> 0, mediaType |-> "", artifactType |-> "",
     config |-> NoDescriptors, layers |-> NoDescriptors, blobs |-> NoDescriptors,
     subject |-> NoDescriptors, created |-> << >>]

ImageDoc(cfg, lyrs, subj) ==
    [json |-> TRUE, schemaVersion |-> 2, mediaType |-> MediaTypeImageManifest,
     artifactType |-> "", config |-> cfg, layers |-> lyrs, blobs |-> NoDescriptors,
     subject |-> subj, created |-> << >>]

ORASDoc(at, bl, subj, cr) ==
    [json |-> TRUE, schemaVersion |-> 0, mediaType |-> MediaTypeORASArtifactManifest,
     artifactType |-> at, config |-> NoDescriptors, layers |-> NoDescriptors,
     blobs |-> bl, subject |-> subj, created |-> cr]

OCIArtifactDoc(at, bl, subj) ==
    [json |-> TRUE, schemaVersion |-> 0, mediaType |-> MediaTypeOCIArtifactManifest,
     artifactType |-> at, config |-> NoDescriptors, layers |-> NoDescriptors,
     blobs |-> bl, subject |-> subj, created |-> << >>]

\* a JSON document of which only the envelope (manifest.Versioned) matters
EnvelopeDoc(schemaVersion, mediaType) ==
    [json |-> TRUE, schemaVersion |-> schemaVersion, mediaType |-> mediaType,
     artifactType |-> "", config |-> NoDescriptors, layers |-> NoDescriptors,
     blobs |-> NoDescriptors, subject |-> NoDescriptors, created |-> << >>]

BlobBytes == {"L1", "B1", "B2"}

ManifestBytes == {"I1", "A1", "A2", "A3", "A4", "A5", "A6", "A7", "O1", "X1"}

Doc(b) ==
    CASE b = "I1" -> ImageDoc(<<Descriptor(MediaTypeImageConfig, "L1")>>,
                              <<Descriptor(MediaTypeImageLayer, "L1")>>, NoDescriptors)
      [] b = "X1" -> ImageDoc(<<Descriptor(MediaTypeImageConfig, "L1")>>,
                              <<Descriptor(MediaTypeImageLayer, "L1")>>,
                              <<Descriptor(MediaTypeImageManifest, "I1")>>)
      [] b = "A1" -> ORASDoc("sig", <<Descriptor(MediaTypeORASDescriptor, "B1")>>,
                             <<Descriptor(MediaTypeImageManifest, "I1")>>, << >>)
      [] b = "A2" -> ORASDoc("sbom", <<Descriptor(MediaTypeORASDescriptor, "B2")>>,
                             <<Descriptor(MediaTypeORASArtifactManifest, "A1")>>, << >>)
      \* ORAS artifacts of I1 with a created annotation: A3 and A4 carry the
      \* same timestamp
      [] b = "A3" -> ORASDoc("sig", <<Descriptor(MediaTypeORASDescriptor, "B1")>>,
                             <<Descriptor(MediaTypeImageManifest, "I1")>>, <<5>>)
      [] b = "A4" -> ORASDoc("sbom", <<Descriptor(MediaTypeORASDescriptor, "B1")>>,
                             <<Descriptor(MediaTypeImageManifest, "I1")>>, <<5>>)
      [] b = "A5" -> ORASDoc("sig", <<Descriptor(MediaTypeORASDescriptor, "B1")>>,
                             <<Descriptor(MediaTypeImageManifest, "I1")>>, <<8>>)
      [] b = "A6" -> ORASDoc("sbom", <<Descriptor(MediaTypeORASDescriptor, "B1")>>,
                             <<Descriptor(MediaTypeImageManifest, "I1")>>, <<9>>)
      [] b = "A7" -> ORASDoc("sig", <<Descriptor(MediaTypeORASDescriptor, "B1")>>,
                             <<Descriptor(MediaTypeImageManifest, "I1")>>, << >>)
      [] b = "O1" -> OCIArtifactDoc("sig", <<Descriptor(MediaTypeImageLayer, "B1")>>,
                                    <<Descriptor(MediaTypeImageManifest, "I1")>>)
      \* manifests that break rules of the verification.  ORAS artifacts: no
      \* artifactType, another media type, a created annotation that does
      \* not parse, all three, and one with two blobs
      [] b = "A8" -> ORASDoc("", <<Descriptor(MediaTypeORASDescriptor, "B1")>>,
                             <<Descriptor(MediaTypeImageManifest, "I1")>>, << >>)
      [] b = "A9" -> [ORASDoc("sig", <<Descriptor(MediaTypeORASDescriptor, "B1")>>,
                              <<Descriptor(MediaTypeImageManifest, "I1")>>, << >>)
                         EXCEPT !.mediaType = MediaTypeOCIArtifactManifest]
      [] b = "A10" -> ORASDoc("sig", <<Descriptor(MediaTypeORASDescriptor, "B1")>>,
                              <<Descriptor(MediaTypeImageManifest, "I1")>>, <<-1>>)
      [] b = "A11" -> [ORASDoc("", <<Descriptor(MediaTypeORASDescriptor, "B1")>>,
                               <<Descriptor(MediaTypeImageManifest, "I1")>>, <<-1>>)
                          EXCEPT !.mediaType = MediaTypeOCIArtifactManifest]
      [] b = "A12" -> ORASDoc("sig", <<Descriptor(MediaTypeORASDescriptor, "B1"),
                                       Descriptor(MediaTypeORASDescriptor, "B2")>>,
                              <<Descriptor(MediaTypeImageManifest, "I1")>>, <<7>>)
      \* OCI artifacts: another media type; descriptors without media type;
      \* blobs with an invalid digest and the empty descriptor; the empty
      \* descriptor as subject
      [] b = "O2" -> [OCIArtifactDoc("sig", <<Descriptor(MediaTypeImageLayer, "B1")>>,
                                     <<Descriptor(MediaTypeImageManifest, "I1")>>)
                         EXCEPT !.mediaType = MediaTypeImageManifest]
      [] b = "O3" -> OCIArtifactDoc("", <<Descriptor("", "B1")>>, <<Descriptor("", "I1")>>)
      [] b = "O4" -> OCIArtifactDoc("", <<[mediaType |-> "", digest |-> "invalid"],
                                          EmptyDescriptor,
                                          Descriptor(MediaTypeImageLayer, "B2")>>,
                                    <<[mediaType |-> "", digest |-> "invalid"]>>)
      [] b = "O5" -> OCIArtifactDoc("", <<Descriptor(MediaTypeImageLayer, "B1")>>,
                                    <<EmptyDescriptor>>)
      \* images: schema version 1; a layer with an invalid digest
      [] b = "I2" -> [ImageDoc(<<Descriptor(MediaTypeImageConfig, "L1")>>,
                               <<Descriptor(MediaTypeImageLayer, "B1")>>, NoDescriptors)
                         EXCEPT !.schemaVersion = 1]
      [] b = "I3" -> ImageDoc(<<Descriptor(MediaTypeImageConfig, "L1")>>,
                              <<[mediaType |-> MediaTypeImageLayer, digest |-> "invalid"],
                                Descriptor(MediaTypeImageLayer, "B2")>>, NoDescriptors)
      \* payloads of the built-in kinds and of no known kind: a signed
      \* schema1 manifest, a schema2 manifest, a manifest list, an image index
      \* and an OCI image without media type, an unknown media type
      [] b = "S1" -> EnvelopeDoc(1, "")
      [] b = "S2" -> EnvelopeDoc(2, MediaTypeSchema2Manifest)
      [] b = "ML" -> EnvelopeDoc(2, MediaTypeManifestList)
      [] b = "IX0" -> EnvelopeDoc(2, "")
      [] b = "I0" -> [ImageDoc(<<Descriptor(MediaTypeImageConfig, "L1")>>,
                               <<Descriptor(MediaTypeImageLayer, "L1")>>, NoDescriptors)
                         EXCEPT !.mediaType = ""]
      [] b = "U2" -> EnvelopeDoc(2, "application/x-unknown")
      [] OTHER -> OpaqueDoc

Range(s) == {s[i] : i \in DOMAIN s}

----------------------------------------------------------------------------
(* Storage driver: files (path -> content) and directories.  A path is a   *)
(* sequence of components.                                                 *)

EmptyStore == [files |-> << >>, dirs |-> {}]

IsPrefix(p, q) == Len(p) <= Len(q) /\ SubSeq(q, 1, Len(p)) = p

Ancestors(p) == {SubSeq(p, 1, k) : k \in 1..(Len(p) - 1)}

\* driver.Stat succeeds
PathExists(st, p) == p \in DOMAIN st.files \/ p \in st.dirs

PutContent(st, p, c) ==
    [files |-> [q \in (DOMAIN st.files) \cup {p} |-> IF q = p THEN c ELSE st.files[q]],
     dirs |-> st.dirs \cup Ancestors(p)]

\* driver.Delete of an existing path: the path and everything below it
Delete(st, p) ==
    [files |-> [q \in {f \in DOMAIN st.files : ~IsPrefix(p, f)} |-> st.files[q]],
     dirs |-> {d \in st.dirs : ~IsPrefix(p, d)}]

\* the files driver.Walk visits below root whose name is "link"
WalkLinks(st, root) ==
    {f \in DOMAIN st.files : IsPrefix(root, f) /\ f[Len(f)] = "link"}

----------------------------------------------------------------------------
(* Path mapper *)

repositoriesRootPath == <<"repositories">>

manifestRevisionsPath(name) == <<"repositories", name, "_manifests", "revisions">>

manifestRevisionPath(name, d) == manifestRevisionsPath(name) \o <<d>>

manifestRevisionLinkPath(name, d) == manifestRevisionPath(name, d) \o <<"link">>

manifestTagsPath(name) == <<"repositories", name, "_manifests", "tags">>

manifestTagPath(name, tag) == manifestTagsPath(name) \o <<tag>>

manifestTagCurrentPath(name, tag) == manifestTagPath(name, tag) \o <<"current", "link">>

manifestTagIndexPath(name, tag) == manifestTagPath(name, tag) \o <<"index">>

manifestTagIndexEntryPath(name, tag, d) == manifestTagIndexPath(name, tag) \o <<d>>

manifestTagIndexEntryLinkPath(name, tag, d) == manifestTagIndexEntryPath(name, tag, d) \o <<"link">>

blobLinkPath(name, d) == <<"repositories", name, "_layers", d, "link">>

blobsRootPath == <<"blobs">>

blobPath(d) == <<"blobs", d>>

blobDataPath(d) == <<"blobs", d, "data">>

\* (variant: one referrers root for all repositories)
referrersRootPathShared(name) == <<"repositories", "r1", "_refs", "subjects">>

referrersRootPath(name) == <<"repositories", name, "_refs", "subjects">>

\* path.Join(referrerRootPath, dgst.Algorithm(), dgst.Hex())
referrersSubjectPath(name, subject) == referrersRootPath(name) \o <<subject>>

\* (variant: the link is filed under the referrer itself)
referrersLinkPathSelf(name, subject, d) == referrersSubjectPath(name, d) \o <<d, "link">>

referrersLinkPath(name, subject, d) == referrersSubjectPath(name, subject) \o <<d, "link">>

----------------------------------------------------------------------------
(* Blob store and the repository-scoped linked blob stores *)

\* the global blob statter (registry.BlobStatter())
BlobStat(st, d) == blobDataPath(d) \in DOMAIN st.files

\* linkedBlobStatter.Stat with the given link path: the link exists in the
\* repository and its target is in the global blob store
LinkedStat(st, linkPath, d) ==
    /\ linkPath \in DOMAIN st.files
    /\ BlobStat(st, st.files[linkPath])

\* repository.Blobs(ctx).Stat
LayerStat(st, name, d) == LinkedStat(st, blobLinkPath(name, d), d)

\* blobStore.Put: the blob bytes under their digest
WriteBlob(st, b) == PutContent(st, blobDataPath(FromBytes(b)), b)

\* linkedBlobStore.linkBlob
LinkBlob(st, linkPath, d) == PutContent(st, linkPath, d)

\* repository.Blobs(ctx).Put: a layer / config / signature upload
BlobsPut(st, name, b) ==
    LinkBlob(WriteBlob(st, b), blobLinkPath(name, FromBytes(b)), FromBytes(b))

\* the manifest store's linkedBlobStore.Put
ManifestBlobPut(st, name, b) ==
    LinkBlob(WriteBlob(st, b), manifestRevisionLinkPath(name, FromBytes(b)), FromBytes(b))

\* linkedBlobStore.Enumerate over the manifest revisions of a repository
ManifestLinks(st, name) == {st.files[f] : f \in WalkLinks(st, manifestRevisionsPath(name))}

\* registry.Blobs().Enumerate
BlobEnumerate(st) ==
    {f[2] : f \in {g \in DOMAIN st.files : IsPrefix(blobsRootPath, g) /\ Len(g) = 3}}

\* the repositories the registry enumerates
RepositoryNames(st) ==
    {d[2] : d \in {e \in st.dirs : IsPrefix(repositoriesRootPath, e) /\ Len(e) = 2}}

----------------------------------------------------------------------------
(* Tag store *)

TagsDirExists(st, name) == PathExists(st, manifestTagsPath(name))

\* tagStore.All (ErrRepositoryUnknown when the tags directory is missing)
TagsAll(st, name) ==
    {d[Len(d)] : d \in {e \in st.dirs : IsPrefix(manifestTagsPath(name), e)
                                         /\ Len(e) = Len(manifestTagsPath(name)) + 1}}

\* tagStore.Lookup: the tags whose current link is the digest
TagsLookup(st, name, d) ==
    {t \in TagsAll(st, name) :
        /\ manifestTagCurrentPath(name, t) \in DOMAIN st.files
        /\ st.files[manifestTagCurrentPath(name, t)] = d}

\* tagStore.Tag: index entry, then the current link
TagStoreTag(st, name, tag, d) ==
    PutContent(PutContent(st, manifestTagIndexEntryLinkPath(name, tag, d), d),
               manifestTagCurrentPath(name, tag), d)

\* tagStore.Untag
TagStoreUntag(st, name, tag) == Delete(st, manifestTagPath(name, tag))

----------------------------------------------------------------------------
(* Manifest codecs *)

\* a typed manifest: the Go type, the parsed document and the canonical bytes
TypedManifest(type, b) == [type |-> type, doc |-> Doc(b), canonical |-> b]

NoManifest == [type |-> "none", doc |-> OpaqueDoc, canonical |-> ""]

\* the payloads whose JSON has a "manifests" member
\* (ManifestList.Manifests is not nil after unmarshalling)
WithManifests == {"ML", "IX0"}

\* ocischema.DeserializedManifest.UnmarshalJSON
OCISchemaUnmarshalOK(b) ==
    /\ Doc(b).json
    /\ Doc(b).mediaType \in {"", MediaTypeImageManifest}

\* ociartifact.DeserializedManifest.UnmarshalJSON
OCIArtifactUnmarshalOK(b) ==
    /\ Doc(b).json
    /\ Doc(b).mediaType = MediaTypeOCIArtifactManifest

\* orasartifact.DeserializedManifest.UnmarshalJSON
ORASUnmarshalOK(b) ==
    /\ Doc(b).json
    /\ Doc(b).artifactType # ""
    /\ Doc(b).mediaType = MediaTypeORASArtifactManifest

\* Payload(): the media type and the stored canonical bytes
Payload(m) ==
    [mediaType |-> CASE m.type = "ocischema" -> MediaTypeImageManifest
                     [] m.type = "ociartifact" -> MediaTypeOCIArtifactManifest
                     [] m.type = "oras" -> MediaTypeORASArtifactManifest
                     [] OTHER -> "",
     bytes |-> m.canonical]

\* References()
References(m) ==
    CASE m.type = "ocischema" -> m.doc.config \o m.doc.layers \o m.doc.subject
      [] m.type = "ociartifact" -> m.doc.blobs \o m.doc.subject
      [] m.type = "oras" -> m.doc.blobs
      [] OTHER -> NoDescriptors

\* the typed manifest a client builds from the bytes it sends
\* (distribution.UnmarshalManifest by media type)
ClientManifest(b) ==
    CASE Doc(b).mediaType = MediaTypeImageManifest -> TypedManifest("ocischema", b)
      [] Doc(b).mediaType = MediaTypeOCIArtifactManifest -> TypedManifest("ociartifact", b)
      [] Doc(b).mediaType = MediaTypeORASArtifactManifest -> TypedManifest("oras", b)
      [] OTHER -> NoManifest

----------------------------------------------------------------------------
(* Errors.  A Put returns nil, a bare error, or a verification aggregate    *)
(* (distribution.ErrManifestVerification, a list of errors).                *)

Err(code, d) == [code |-> code, digest |-> d]

ErrManifestBlobUnknown(d) == Err("manifest-blob-unknown", d)

errInvalidArtifactType == Err("artifactType-invalid", "")

errInvalidMediaType == Err("mediaType-invalid", "")

errInvalidCreatedAnnotation == Err("created-annotation-invalid", "")

ErrDigestInvalidFormat == Err("digest-invalid-format", "")

NilError == [kind |-> "nil", errs |-> << >>]

BareError(code) == [kind |-> "error", errs |-> <<Err(code, "")>>]

ErrManifestFormatUnsupported == BareError("manifest-format-unsupported")

\* "if len(errs) != 0 { return errs }; return nil"
VerificationResult(errs) ==
    IF Len(errs) # 0 THEN [kind |-> "verification", errs |-> errs] ELSE NilError

\* the errors appended for each descriptor of a list, in order
ErrsOver(perDesc) ==
    LET acc[i \in 0..Len(perDesc)] ==
            IF i = 0 THEN << >> ELSE acc[i - 1] \o perDesc[i]
    IN  acc[Len(perDesc)]

----------------------------------------------------------------------------
(* Manifest service (manifestStore) reads *)

\* the statter of the manifest store's linked blob store with the revision
\* link only (the read-only store of the manifest revisions)
RevisionStat(st, name, d) == LinkedStat(st, manifestRevisionLinkPath(name, d), d)

\* manifestStore.Exists: Stat of the manifest store's linked blob store,
\* which follows the revision link of the digest and, failing that, its
\* layer link (a digest put through repository.Blobs is accepted as the
\* subject of an artifact)
ManifestExists(st, name, d) ==
    \/ RevisionStat(st, name, d)
    \/ LinkedStat(st, blobLinkPath(name, d), d)

InvalidDigests == {"", "invalid"}

\* digest.Validate
DigestValid(d) == d \notin InvalidDigests

\* time.Parse(time.RFC3339, createdAt) succeeds
CreatedParses(t) == t >= 0

ManifestMediaTypes ==
    {MediaTypeImageManifest, MediaTypeOCIArtifactManifest,
     "application/vnd.oci.image.index.v1+json",
     "application/vnd.docker.distribution.manifest.v2+json",
     "application/vnd.docker.distribution.manifest.list.v2+json"}

----------------------------------------------------------------------------
(* Verification, per handler *)

\* (variant: the references are not checked)
ORASVerifyManifestNoBlobs(st, name, m, skipDependencyVerification) ==
    LET subject == m.doc.subject[1]
        deps == IF skipDependencyVerification THEN << >>
                ELSE IF ~ManifestExists(st, name, subject.digest)
                     THEN <<ErrManifestBlobUnknown(subject.digest)>> ELSE << >>
    IN  VerificationResult(
            (IF m.doc.artifactType = "" THEN <<errInvalidArtifactType>> ELSE << >>)
         \o (IF m.doc.mediaType # MediaTypeORASArtifactManifest
             THEN <<errInvalidMediaType>> ELSE << >>)
         \o (IF Len(m.doc.created) > 0 /\ ~CreatedParses(m.doc.created[1])
             THEN <<errInvalidCreatedAnnotation>> ELSE << >>)
         \o deps)

\* ArtifactManifestHandler.verifyManifest (ORAS artifacts)
ORASVerifyManifest(st, name, m, skipDependencyVerification) ==
    LET blobErrs(desc) ==
            IF ~LayerStat(st, name, desc.digest)
            THEN <<ErrManifestBlobUnknown(desc.digest)>> ELSE << >>
        subject == m.doc.subject[1]
        deps == IF skipDependencyVerification THEN << >>
                ELSE ErrsOver([i \in DOMAIN References(m) |-> blobErrs(References(m)[i])])
                     \o (IF ~ManifestExists(st, name, subject.digest)
                         THEN <<ErrManifestBlobUnknown(subject.digest)>> ELSE << >>)
    IN  VerificationResult(
            (IF m.doc.artifactType = "" THEN <<errInvalidArtifactType>> ELSE << >>)
         \o (IF m.doc.mediaType # MediaTypeORASArtifactManifest
             THEN <<errInvalidMediaType>> ELSE << >>)
         \o (IF Len(m.doc.created) > 0 /\ ~CreatedParses(m.doc.created[1])
             THEN <<errInvalidCreatedAnnotation>> ELSE << >>)
         \o deps)

\* (variant: an invalid digest yields the format error alone)
OCIArtifactVerifyManifestFormatOnly(st, name, m, skipDependencyVerification) ==
    LET subjErrs(desc) ==
            IF ~DigestValid(desc.digest) THEN <<ErrDigestInvalidFormat>>
            ELSE IF ~ManifestExists(st, name, desc.digest)
                 THEN <<ErrManifestBlobUnknown(desc.digest)>> ELSE << >>
        blobErrs(desc) ==
            IF ~DigestValid(desc.digest) THEN <<ErrDigestInvalidFormat>>
            ELSE IF ~LayerStat(st, name, desc.digest)
                 THEN <<ErrManifestBlobUnknown(desc.digest)>> ELSE << >>
    IN  IF m.doc.mediaType # MediaTypeOCIArtifactManifest
        THEN BareError("unrecognized manifest media type")
        ELSE IF skipDependencyVerification THEN NilError
        ELSE VerificationResult(ErrsOver([i \in DOMAIN m.doc.subject |-> subjErrs(m.doc.subject[i])])
                                \o ErrsOver([i \in DOMAIN m.doc.blobs |-> blobErrs(m.doc.blobs[i])]))

\* ociArtifactManifestHandler.verifyArtifactManifest
OCIArtifactVerifyManifest(st, name, m, skipDependencyVerification) ==
    LET subjErrs(desc) ==
            IF ~DigestValid(desc.digest)
            THEN <<ErrDigestInvalidFormat, ErrManifestBlobUnknown(desc.digest)>>
            ELSE IF ~ManifestExists(st, name, desc.digest)
                 THEN <<ErrManifestBlobUnknown(desc.digest)>> ELSE << >>
        blobErrs(desc) ==
            IF ~DigestValid(desc.digest)
            THEN <<ErrDigestInvalidFormat, ErrManifestBlobUnknown(desc.digest)>>
            ELSE IF ~LayerStat(st, name, desc.digest)
                 THEN <<ErrManifestBlobUnknown(desc.digest)>> ELSE << >>
    IN  IF m.doc.mediaType # MediaTypeOCIArtifactManifest
        THEN BareError("unrecognized manifest media type")
        ELSE IF skipDependencyVerification THEN NilError
        ELSE VerificationResult(ErrsOver([i \in DOMAIN m.doc.subject |-> subjErrs(m.doc.subject[i])])
                                \o ErrsOver([i \in DOMAIN m.doc.blobs |-> blobErrs(m.doc.blobs[i])]))

\* (variant: the references are not checked)
OCISchemaVerifyManifestNoStat(st, name, m, skipDependencyVerification) ==
    IF m.doc.schemaVersion # 2
    THEN BareError("unrecognized manifest schema version")
    ELSE NilError

\* ocischemaManifestHandler.verifyManifest.  For a manifest-typed descriptor
\* the outcome of manifestService.Exists is replaced by that of the blob
\* store check the case falls through to.
OCISchemaVerifyManifest(st, name, m, skipDependencyVerification) ==
    LET descErrs(desc) ==
            IF ~DigestValid(desc.digest)
            THEN <<ErrDigestInvalidFormat, ErrManifestBlobUnknown(desc.digest)>>
            ELSE LET existsErr == desc.mediaType \in ManifestMediaTypes
                                  /\ ~ManifestExists(st, name, desc.digest)
                     \* "_, err = blobsService.Stat(...)" assigns err anew
                     err == ~LayerStat(st, name, desc.digest)
                 IN  IF err THEN <<ErrManifestBlobUnknown(desc.digest)>> ELSE << >>
    IN  IF m.doc.schemaVersion # 2
        THEN BareError("unrecognized manifest schema version")
        ELSE IF skipDependencyVerification THEN NilError
        ELSE VerificationResult(ErrsOver([i \in DOMAIN References(m) |-> descErrs(References(m)[i])]))

----------------------------------------------------------------------------
(* manifestStore.Put: dispatch on the manifest's type, then the handler's   *)
(* pipeline verify -> blobStore.Put -> indexReferrers                       *)

\* the extension handlers of the manifest store, in registration order
ExtensionManifestHandlers == <<"oras", "ociartifact">>

\* what handler h answers to a manifest that is not of its type
TypeMismatchError(h) ==
    IF h = "oras" THEN ErrManifestFormatUnsupported
    ELSE BareError("manifest of another type put to handler")

HandlerVerify(h, st, name, m, skip) ==
    CASE h = "ocischema" -> OCISchemaVerifyManifest(st, name, m, skip)
      [] h = "oras" -> ORASVerifyManifest(st, name, m, skip)
      [] h = "ociartifact" -> OCIArtifactVerifyManifest(st, name, m, skip)

\* the verdict of the type switch and of the loop over the extension handlers
\* up to the point where a handler of the manifest's own type verifies it
PutVerdict(st, name, m, skip) ==
    IF m.type = "ocischema" THEN HandlerVerify("ocischema", st, name, m, skip)
    ELSE LET try[i \in 1..(Len(ExtensionManifestHandlers) + 1)] ==
                 IF i > Len(ExtensionManifestHandlers)
                 THEN BareError("unrecognized manifest type")
                 ELSE LET h == ExtensionManifestHandlers[i]
                      IN  IF h = m.type THEN HandlerVerify(h, st, name, m, skip)
                          ELSE IF TypeMismatchError(h) = ErrManifestFormatUnsupported
                               THEN try[i + 1]
                               ELSE TypeMismatchError(h)
         IN  try[1]

\* (variant: a link that is there already is appended to)
IndexReferrersAppend(st, name, m, revision) ==
    IF Len(m.doc.subject) = 0 THEN st
    ELSE LET p == referrersLinkPath(name, m.doc.subject[1].digest, revision)
         IN  PutContent(st, p, IF p \in DOMAIN st.files THEN st.files[p] \o revision
                               ELSE revision)

\* indexReferrers of the three handlers: the link
\* <referrers root>/<subject>/<revision>/link holding the revision digest
IndexReferrers(st, name, m, revision) ==
    IF Len(m.doc.subject) = 0 THEN st
    ELSE PutContent(st, referrersLinkPath(name, m.doc.subject[1].digest, revision), revision)

\* a whole Put that no storage error interrupts
PutOutcome(st, name, m, skip) ==
    LET v == PutVerdict(st, name, m, skip)
        revision == FromBytes(Payload(m).bytes)
    IN  IF v.kind # "nil" THEN [store |-> st, digest |-> "", err |-> v]
        ELSE [store |-> IndexReferrers(ManifestBlobPut(st, name, Payload(m).bytes),
                                       name, m, revision),
              digest |-> revision, err |-> NilError]

ErrManifestUnknownRevision == BareError("manifest-unknown-revision")

\* what Get returns: a manifest and an error
GetResult(manifest, err) == [manifest |-> manifest, err |-> err]

\* Unmarshal of the built-in handlers
BuiltInUnmarshal(h, content) ==
    CASE h = "ocischema" ->
             IF OCISchemaUnmarshalOK(content)
             THEN GetResult(TypedManifest("ocischema", content), NilError)
             ELSE GetResult(NoManifest, BareError("mediaType in manifest should be the image media type"))
      [] OTHER -> GetResult(TypedManifest(h, content), NilError)

\* (variant: both handlers answer format-unsupported to what they cannot
\* decode)
ExtensionUnmarshalUnsupported(h, content) ==
    CASE h = "oras" ->
             IF ORASUnmarshalOK(content)
             THEN GetResult(TypedManifest("oras", content), NilError)
             ELSE GetResult(NoManifest, ErrManifestFormatUnsupported)
      [] h = "ociartifact" ->
             IF OCIArtifactUnmarshalOK(content)
             THEN GetResult(TypedManifest("ociartifact", content), NilError)
             ELSE GetResult(NoManifest, ErrManifestFormatUnsupported)

\* Unmarshal of the extension handlers: the ORAS handler answers
\* format-unsupported to what it cannot decode, the OCI artifact handler
\* answers the error of UnmarshalJSON
ExtensionUnmarshal(h, content) ==
    CASE h = "oras" ->
             IF ORASUnmarshalOK(content)
             THEN GetResult(TypedManifest("oras", content), NilError)
             ELSE GetResult(NoManifest, ErrManifestFormatUnsupported)
      [] h = "ociartifact" ->
             IF OCIArtifactUnmarshalOK(content)
             THEN GetResult(TypedManifest("ociartifact", content), NilError)
             ELSE GetResult(NoManifest, BareError("mediaType in manifest should be the artifact media type"))

\* manifestStore.Get of a manifest store with the extension handlers
\* handlers
ManifestStoreGet(handlers, st, name, d) ==
    IF ~ManifestExists(st, name, d) THEN GetResult(NoManifest, ErrManifestUnknownRevision)
    ELSE LET content == st.files[blobDataPath(d)]
             versioned == Doc(content)
             \* fallback(): ok, m, err
             fallback[i \in 1..(Len(handlers) + 1)] ==
                 IF i > Len(handlers) THEN [ok |-> FALSE, res |-> GetResult(NoManifest, NilError)]
                 ELSE LET u == ExtensionUnmarshal(handlers[i], content)
                      IN  IF u.err # ErrManifestFormatUnsupported
                          THEN [ok |-> TRUE, res |-> u]
                          ELSE fallback[i + 1]
         IN  IF ~versioned.json THEN GetResult(NoManifest, BareError("json"))
             ELSE CASE versioned.schemaVersion = 1 -> BuiltInUnmarshal("schema1", content)
                    [] versioned.schemaVersion = 2 ->
                         CASE versioned.mediaType = MediaTypeSchema2Manifest ->
                                  BuiltInUnmarshal("schema2", content)
                           [] versioned.mediaType = MediaTypeImageManifest ->
                                  BuiltInUnmarshal("ocischema", content)
                           [] versioned.mediaType \in {MediaTypeManifestList, MediaTypeImageIndex} ->
                                  BuiltInUnmarshal("manifestlist", content)
                           [] versioned.mediaType = "" ->
                                  LET res == BuiltInUnmarshal("manifestlist", content)
                                  IN  IF res.err = NilError /\ content \in WithManifests
                                      THEN res
                                      ELSE BuiltInUnmarshal("ocischema", content)
                           [] OTHER ->
                                  IF fallback[1].ok THEN fallback[1].res
                                  ELSE GetResult(NoManifest,
                                           VerificationResult(<<Err("unrecognized manifest content type", "")>>))
                    [] OTHER ->
                         IF fallback[1].ok THEN fallback[1].res
                         ELSE GetResult(NoManifest, BareError("unrecognized manifest schema version"))

\* (variant: no fallback to the extension handlers)
ManifestGetNoFallback(st, name, d) ==
    IF ~ManifestExists(st, name, d) THEN NoManifest
    ELSE LET content == st.files[blobDataPath(d)]
         IN  IF Doc(content).json /\ Doc(content).schemaVersion = 2
                /\ Doc(content).mediaType \in {MediaTypeImageManifest, ""}
             THEN TypedManifest("ocischema", content)
             ELSE NoManifest

\* manifestStore.Get: read through the revision link, decode by the envelope
ManifestGet(st, name, d) ==
    CHOOSE m \in {IF r.err = NilError THEN r.manifest ELSE NoManifest
                     : r \in {ManifestStoreGet(ExtensionManifestHandlers, st, name, d)}} : TRUE

----------------------------------------------------------------------------
(* Vacuum *)

\* driver.Delete of each of the paths (those that exist)
DeleteAll(st, ps) ==
    [files |-> [q \in {f \in DOMAIN st.files : \A p \in ps : ~IsPrefix(p, f)} |-> st.files[q]],
     dirs |-> {d \in st.dirs : \A p \in ps : ~IsPrefix(p, d)}]

\* Vacuum.RemoveBlob
RemoveBlobPaths(d) == {blobPath(d)}

\* Vacuum.RemoveManifest: the tag index entries that exist, the revision
\* directory, the referrers root of the manifest (its error is dropped)
RemoveManifestPaths(st, name, d, tags) ==
    {manifestTagIndexEntryPath(name, t, d) : t \in tags}
        \cup {manifestRevisionPath(name, d)}
        \cup {referrersSubjectPath(name, d)}

\* Vacuum.RemoveArtifactManifest fails when the revision directory is missing
RemoveArtifactManifestFails(st, name, d) == ~PathExists(st, manifestRevisionPath(name, d))

\* Vacuum.RemoveArtifactManifest: the revision directory, the referrers root
RemoveArtifactManifestPaths(name, d) ==
    {manifestRevisionPath(name, d), referrersSubjectPath(name, d)}

\* (variant: every enumerated digest)
DeleteSetAll(st, markSet) == BlobEnumerate(st)

\* the blob sweep's deleteSet: every enumerated digest that is not marked
DeleteSet(st, markSet) == BlobEnumerate(st) \ markSet

----------------------------------------------------------------------------
(* Mark phase of MarkAndSweep *)

DigestsOf(descs) == {descs[i].digest : i \in DOMAIN descs}

\* (variant: a link whose target the blob statter does not know is handed
\* to the ingestor as well)
ReferrerLinkTargetsUnchecked(st, rootPath) ==
    {st.files[f] : f \in WalkLinks(st, rootPath)}

\* the digests EnumerateReferrerLinks hands to its ingestor: the links below
\* the root whose target the global blob statter knows
ReferrerLinkTargets(st, rootPath) ==
    {d \in {st.files[f] : f \in WalkLinks(st, rootPath)} : BlobStat(st, d)}

\* enumerateReferrerLinks of the referrers API: the same walk over the
\* referrers root of a subject
enumerateReferrerLinks(st, name, subjectRevision) ==
    {d \in {st.files[f] : f \in WalkLinks(st, referrersSubjectPath(name, subjectRevision))}
        : BlobStat(st, d)}

RECURSIVE MarkWalk(_, _, _)
RECURSIVE artifactMarkIngestor(_, _, _)

\* artifactMarkIngestor: mark the referrer and its references, recurse into
\* its own referrers
artifactMarkIngestor(st, name, referrerRevision) ==
    LET man == ManifestGet(st, name, referrerRevision)
    IN  IF man = NoManifest THEN [err |-> TRUE, marks |-> {}]
        ELSE CHOOSE r \in {[err |-> below.err,
                            marks |-> {referrerRevision} \cup DigestsOf(References(man))
                                          \cup below.marks]
                           : below \in {MarkWalk(st, name, referrerRevision)}} : TRUE

\* EnumerateReferrerLinks(rootPath of subject, artifactMarkIngestor)
MarkWalk(st, name, subject) ==
    CHOOSE r \in {[err |-> \E x \in res : x.err, marks |-> UNION {x.marks : x \in res}]
                  : res \in {{artifactMarkIngestor(st, name, d)
                                 : d \in ReferrerLinkTargets(st, referrersSubjectPath(name, subject))}}}
        : TRUE

\* artifactSweepIngestor: index the referrer for deletion; its own referrers
\* are walked with artifactMarkIngestor
artifactSweepIngestor(st, name, referrerRevision) ==
    CHOOSE r \in {[err |-> below.err, index |-> {referrerRevision}, marks |-> below.marks]
                  : below \in {MarkWalk(st, name, referrerRevision)}} : TRUE

\* EnumerateReferrerLinks(rootPath of subject, artifactSweepIngestor)
SweepWalk(st, name, subject) ==
    CHOOSE r \in {[err |-> \E x \in res : x.err,
                   index |-> UNION {x.index : x \in res},
                   marks |-> UNION {x.marks : x \in res}]
                  : res \in {{artifactSweepIngestor(st, name, d)
                                 : d \in ReferrerLinkTargets(st, referrersSubjectPath(name, subject))}}}
        : TRUE

NoMark == [err |-> FALSE, marks |-> {}, dels |-> {}, index |-> {}]

\* the callback of manifestEnumerator.Enumerate for one manifest digest
MarkManifest(st, name, dgst, opts) ==
    LET manifest == ManifestGet(st, name, dgst)
    IN  IF manifest = NoManifest THEN [NoMark EXCEPT !.err = TRUE]
        ELSE IF Payload(manifest).mediaType = MediaTypeORASArtifactManifest THEN NoMark
        ELSE IF opts.removeUntagged /\ TagsLookup(st, name, dgst) = {}
        THEN IF ~TagsDirExists(st, name) THEN [NoMark EXCEPT !.err = TRUE]
             ELSE CHOOSE r \in {[err |-> w.err, marks |-> w.marks,
                                 dels |-> {[name |-> name, digest |-> dgst,
                                            tags |-> TagsAll(st, name)]},
                                 index |-> w.index]
                                : w \in {SweepWalk(st, name, dgst)}} : TRUE
        ELSE CHOOSE r \in {[err |-> w.err,
                            marks |-> {dgst} \cup DigestsOf(References(manifest)) \cup w.marks,
                            dels |-> {}, index |-> {}]
                           : w \in {MarkWalk(st, name, dgst)}} : TRUE

\* repositories in the order the registry enumerates them
RepositoryOrder == <<"r1", "r2">>

\* artifactManifestIndex[digest] is overwritten: the last repository that
\* indexes the digest wins
IndexOwner(res, d) ==
    LET indexing == {i \in DOMAIN RepositoryOrder :
                        \E r \in res : r.name = RepositoryOrder[i] /\ d \in r.m.index}
    IN  RepositoryOrder[CHOOSE i \in indexing : \A j \in indexing : j <= i]

\* the mark phase over every manifest of every repository
Mark(st, opts) ==
    CHOOSE mk \in
        {[err |-> \E r \in res : r.m.err,
          markSet |-> UNION {r.m.marks : r \in res},
          manifestArr |-> UNION {r.m.dels : r \in res},
          artifactManifestIndex |->
              [d \in UNION {r.m.index : r \in res} |-> IndexOwner(res, d)]]
         : res \in {UNION {{[name |-> name, m |-> MarkManifest(st, name, d, opts)]
                               : d \in ManifestLinks(st, name)}
                              : name \in RepositoryNames(st)}}} : TRUE

----------------------------------------------------------------------------
(* Referrers API: the list of referrers of a subject, filtered, sorted and  *)
(* cut into pages                                                          *)

maxPageSize == 50

\* minimum page size, the number of digests of a nextToken
minPageSize == 3

\* the storage driver walks a directory in lexical order of the paths: the
\* digests of the payloads in that order
WalkOrder ==
    <<"A1", "A2", "A3", "A4", "A5", "A6", "A7", "B1", "B2", "I1", "L1", "O1", "X1">>

WalkRank(d) == CHOOSE i \in DOMAIN WalkOrder : FromBytes(WalkOrder[i]) = d

\* the digests the walk below the referrers root of the subject hands to the
\* ingestor, in the order of the walk
EnumeratedReferrers(st, name, subjectRevision) ==
    CHOOSE links \in
        {<< >> \o [i \in 1..Cardinality(S) |->
                     CHOOSE d \in S : Cardinality({e \in S : WalkRank(e) < WalkRank(d)}) = i - 1]
         : S \in {enumerateReferrerLinks(st, name, subjectRevision)}} : TRUE

\* filtering by artifact type, or bypass if no artifact type is specified
ReferrerIncludedAlways(artifactType, extractedArtifactType) == TRUE

ReferrerIncluded(artifactType, extractedArtifactType) ==
    artifactType = "" \/ extractedArtifactType = artifactType

\* time.Time.After
AfterReversed(t, u) == t < u

After(t, u) == t > u

\* the answer of the referrers API to an error
APIError(code) == [err |-> code, referrers |-> << >>]

\* what the ingestor of a referrers list finds for the digest d of a
\* referrer link: whether the manifest is a revision of the repository, the
\* type manifests.Get decodes it to, and the fields that go into the
\* descriptor
IngestedReferrer(st, name, d) ==
    CHOOSE e \in
        {[digest |-> d, exists |-> ManifestExists(st, name, d), type |-> man.type,
          mediaType |-> Payload(man).mediaType, artifactType |-> man.doc.artifactType,
          config |-> man.doc.config, created |-> man.doc.created]
         : man \in {ManifestGet(st, name, d)}} : TRUE

\* the referrers of the subject as the ingestor finds them, in the order of
\* the walk
IngestedReferrers(st, name, subjectRevision) ==
    CHOOSE es \in
        {<< >> \o [i \in DOMAIN links |-> IngestedReferrer(st, name, links[i])]
         : links \in {EnumeratedReferrers(st, name, subjectRevision)}} : TRUE

\* sort.Slice by createdAt, most recent first.  The sort is not stable: the
\* order of wrappers with equal createdAt is the one the oracle gives, a
\* list of digests.
SortSlice(wrappers, oracle) ==
    LET W == Range(wrappers)
        rank(w) == IF \E i \in DOMAIN oracle : oracle[i] = w.descriptor.digest
                   THEN CHOOSE i \in DOMAIN oracle : oracle[i] = w.descriptor.digest
                   ELSE 0
        before(v, w) == \/ After(v.createdAt, w.createdAt)
                        \/ /\ v.createdAt = w.createdAt
                           /\ rank(v) < rank(w)
    IN  << >> \o [i \in 1..Cardinality(W) |->
                    CHOOSE w \in W : Cardinality({v \in W : before(v, w)}) = i - 1]

\* the list Referrers makes of what the ingestor finds
ReferrersOf(found, artifactType, oracle) ==
    LET included(e) == /\ e.type = "oras"
                       /\ ReferrerIncluded(artifactType, e.artifactType)
        annotated(e) == Len(e.created) > 0
        artifactDesc(e) == [mediaType |-> e.mediaType, digest |-> e.digest,
                            artifactType |-> e.artifactType]
        unsorted == SelectSeq(found, LAMBDA e : included(e) /\ ~annotated(e))
        toSort == SelectSeq(found, LAMBDA e : included(e) /\ annotated(e))
    IN  IF \E i \in DOMAIN found : ~found[i].exists
        THEN APIError("MANIFEST_UNKNOWN")
        ELSE IF \E i \in DOMAIN found : found[i].type = "none"
        THEN APIError("UNKNOWN")
        ELSE IF \E i \in DOMAIN toSort : ~CreatedParses(toSort[i].created[1])
        THEN APIError("UNKNOWN")
        ELSE CHOOSE r \in
               {[err |-> "",
                 referrers |-> [k \in DOMAIN sorted |-> sorted[k].descriptor]
                               \o [k \in DOMAIN unsorted |-> artifactDesc(unsorted[k])]]
                : sorted \in {SortSlice(<< >> \o [k \in DOMAIN toSort |->
                                            [createdAt |-> toSort[k].created[1],
                                             descriptor |-> artifactDesc(toSort[k])]],
                                        oracle)}} : TRUE

\* referrersHandler.Referrers of the ORAS extension: the descriptors of the
\* ORAS artifacts that refer to revision, those with a created annotation
\* first, most recent first
Referrers(st, name, revision, artifactType, oracle) ==
    CHOOSE r \in {ReferrersOf(found, artifactType, oracle)
                  : found \in {IngestedReferrers(st, name, revision)}} : TRUE

\* generateReferrerFromArtifact and generateReferrerFromImage of the OCI
\* route: the artifact type of an image is the media type of its config
OCIArtifactTypeOf(e) ==
    IF e.type = "ocischema" THEN e.config[1].mediaType ELSE e.artifactType

\* the list generateReferrersList makes of what the ingestor finds
OCIReferrersOf(found, artifactType) ==
    LET included(e) == /\ e.type \in {"ocischema", "ociartifact"}
                       /\ ReferrerIncluded(artifactType, OCIArtifactTypeOf(e))
        kept == SelectSeq(found, LAMBDA e : included(e))
    IN  IF \E i \in DOMAIN found : ~found[i].exists
        THEN APIError("MANIFEST_UNKNOWN")
        ELSE IF \E i \in DOMAIN found : found[i].type = "none"
        THEN APIError("UNKNOWN")
        ELSE [err |-> "",
              referrers |-> << >> \o [k \in DOMAIN kept |->
                                        [mediaType |-> kept[k].mediaType,
                                         digest |-> kept[k].digest,
                                         artifactType |-> OCIArtifactTypeOf(kept[k])]]]

\* referrersHandler.generateReferrersList of the OCI route: the descriptors
\* of the images and OCI artifacts that refer to the subject, in the order
\* of the walk
generateReferrersList(st, name, subjectDigest, artifactType) ==
    CHOOSE r \in {OCIReferrersOf(found, artifactType)
                  : found \in {IngestedReferrers(st, name, subjectDigest)}} : TRUE

\* the nextToken parameter: base64url of the digests joined by commas; base64
\* is FALSE for a string that does not decode.  No parameter is NoToken.
NoToken == [present |-> FALSE, base64 |-> TRUE, digests |-> << >>]

\* base64.RawURLEncoding.EncodeToString(strings.Join(lastDigests, ","))
EncodeToken(lastDigests) == [present |-> TRUE, base64 |-> TRUE, digests |-> lastDigests]

\* the Link header, absent or the URL of the next page
NoLink == [present |-> FALSE, nextToken |-> NoToken, artifactType |-> "", n |-> << >>]

generateLinkHeader(artifactType, lastDigests, nPage) ==
    [present |-> TRUE, nextToken |-> EncodeToken(lastDigests), artifactType |-> artifactType,
     n |-> IF nPage > 0 THEN <<nPage>> ELSE << >>]

\* a page size with no upper limit
PageSizeUnlimited(n) ==
    IF Len(n) = 0 \/ n[1] < minPageSize THEN maxPageSize ELSE n[1]

\* the page size for the parameter n (no parameter, or not a number: << >>)
PageSize(n) ==
    IF Len(n) = 0 \/ n[1] < minPageSize \/ n[1] > maxPageSize THEN maxPageSize ELSE n[1]

\* the starting index: one past the largest index of a referrer whose digest
\* is in the token
StartIndexSmallest(referrers, tokenDigests) ==
    LET hits == {i \in DOMAIN referrers : referrers[i].digest \in tokenDigests}
    IN  IF hits = {} THEN 0 ELSE CHOOSE i \in hits : \A j \in hits : i <= j

StartIndex(referrers, tokenDigests) ==
    LET hits == {i \in DOMAIN referrers : referrers[i].digest \in tokenDigests}
    IN  IF hits = {} THEN 0 ELSE CHOOSE i \in hits : \A j \in hits : j <= i

\* only one page of results is left after startIndex
LastPageStrict(length, startIndex, nPage) == length - startIndex < nPage

LastPage(length, startIndex, nPage) == length - startIndex <= nPage

Response(status, code, referrers, link) ==
    [status |-> status, code |-> code, referrers |-> referrers, link |-> link]

\* the pagination of getReferrers: the page of the list and the Link header.
\* A token that names the last referrer makes the handler slice an empty
\* list beyond its end: the handler panics and there is no response.
Paginate(referrers, artifactType, n, tokenDigests) ==
    LET nPage == PageSize(n)
        startIndex == StartIndex(referrers, tokenDigests)
        page == SubSeq(referrers, startIndex + 1, startIndex + nPage)
        nextDgsts == <<page[nPage].digest, page[nPage - 1].digest, page[nPage - 2].digest>>
    IN  IF Len(referrers) <= nPage THEN Response("ok", "", referrers, NoLink)
        ELSE IF startIndex = Len(referrers) THEN Response("panic", "", << >>, NoLink)
        ELSE IF LastPage(Len(referrers), startIndex, nPage)
        THEN Response("ok", "", SubSeq(referrers, startIndex + 1, Len(referrers)), NoLink)
        ELSE Response("ok", "", page,
                      generateLinkHeader(artifactType, nextDgsts,
                                         IF Len(n) = 0 THEN -1 ELSE nPage))

\* referrersHandler.getReferrers of the ORAS extension; found is what
\* h.Referrers returns for the subject and the artifactType of the request
getReferrers(found, subject, artifactType, n, nextToken) ==
    IF nextToken.present /\ ~nextToken.base64
    THEN Response("error", "MALFORMED_NEXT_TOKEN", << >>, NoLink)
    ELSE IF nextToken.present /\ \E i \in DOMAIN nextToken.digests : ~DigestValid(nextToken.digests[i])
    THEN Response("error", "MALFORMED_NEXT_TOKEN", << >>, NoLink)
    ELSE IF subject = ""
    THEN Response("error", "MANIFEST_UNKNOWN", << >>, NoLink)
    ELSE IF found.err # "" THEN Response("error", found.err, << >>, NoLink)
    ELSE Paginate(found.referrers, artifactType, n, Range(nextToken.digests))

\* GetReferrers of the OCI route: the whole list as an image index
GetReferrers(st, name, subject, artifactType) ==
    IF subject = ""
    THEN Response("error", "MANIFEST_UNKNOWN", << >>, NoLink)
    ELSE CHOOSE r \in
            {IF l.err # "" THEN Response("error", l.err, << >>, NoLink)
             ELSE Response("ok", "", l.referrers, NoLink)
             : l \in {generateReferrersList(st, name, subject, artifactType)}} : TRUE

----------------------------------------------------------------------------
(* State *)

Repositories == {"r1", "r2"}

Tags == {"t1", "t2"}

Procs == {"p1", "p2"}

GCOpts == [dryRun : BOOLEAN, removeUntagged : BOOLEAN]

\* a Put: where the handler stands, its arguments, whether the same payload
\* was already put with success in the repository, and what it returned
IdlePut == [pc |-> "idle", name |-> "", manifest |-> NoManifest, skip |-> FALSE,
            repeat |-> FALSE, digest |-> "", err |-> NilError]

\* a MarkAndSweep: pc is where the run stands, seen the manifests the mark
\* phase has enumerated, swept what the manifest and artifact sweeps have
\* removed, deleteSet the blobs found eligible
NoGC == [ran |-> FALSE, opts |-> [dryRun |-> FALSE, removeUntagged |-> FALSE],
         before |-> EmptyStore, markSet |-> {}, manifestArr |-> {},
         artifactManifestIndex |-> << >>, enumerated |-> {}, removedBlobs |-> {},
         err |-> "", pc |-> "idle", seen |-> {}, swept |-> {}, deleteSet |-> {}]

\* the orders sort.Slice may give to the referrers that have the created
\* timestamp of another one
TiedReferrers ==
    {FromBytes(b) : b \in {a \in ManifestBytes :
        /\ Len(Doc(a).created) > 0
        /\ \E c \in ManifestBytes \ {a} : Doc(c).created = Doc(a).created}}

Oracles ==
    {o \in [1..Cardinality(TiedReferrers) -> TiedReferrers] :
        \A i, j \in DOMAIN o : o[i] = o[j] => i = j}

\* a client of the referrers API: the requests of its listing so far (the
\* route, the parameters of the last request and its response, the digests
\* of each page, the whole list at the time of the last request, whether
\* the list was the same at each request, whether the token was made up by
\* the client), and the order sort.Slice gives to equal timestamps
NoAPI == [oracle |-> CHOOSE o \in Oracles : TRUE, route |-> "", requests |-> 0,
          artifactType |-> "", n |-> << >>, nextToken |-> NoToken, forged |-> FALSE,
          response |-> Response("", "", << >>, NoLink), listing |-> << >>,
          pages |-> << >>, stable |-> TRUE, inserted |-> 0]

Init ==
    /\ store = EmptyStore
    /\ puts = [p \in Procs |-> IdlePut]
    /\ acked = {}
    /\ gc = NoGC
    /\ api = NoAPI

----------------------------------------------------------------------------
(* Client operations, each a whole request *)

\* blob upload: repository.Blobs(ctx).Put
PushBlob(name, b) ==
    /\ gc.pc = "idle"
    /\ store' = BlobsPut(store, name, b)
    /\ UNCHANGED <<puts, acked, gc, api>>

\* manifestStore.Put with dependency verification, not interrupted
PutManifest(name, b) ==
    /\ gc.pc = "idle"
    /\ ClientManifest(b) # NoManifest
    /\ store' = PutOutcome(store, name, ClientManifest(b), FALSE).store
    /\ UNCHANGED <<puts, acked, gc, api>>

\* tagStore.Tag of a manifest of the repository
Tag(name, tag, d) ==
    /\ gc.pc = "idle"
    /\ ManifestExists(store, name, d)
    /\ \/ manifestTagIndexEntryLinkPath(name, tag, d) \in DOMAIN store.files
       \/ Cardinality(WalkLinks(store, manifestTagIndexPath(name, tag))) < MaxTagHistory
    /\ store' = TagStoreTag(store, name, tag, d)
    /\ UNCHANGED <<puts, acked, gc, api>>

\* tagStore.Untag
Untag(name, tag) ==
    /\ gc.pc = "idle"
    /\ PathExists(store, manifestTagPath(name, tag))
    /\ store' = TagStoreUntag(store, name, tag)
    /\ UNCHANGED <<puts, acked, gc, api>>

----------------------------------------------------------------------------
(* Requests to the referrers API, each a whole request *)

DigestsOfList(descs) == [i \in DOMAIN descs |-> descs[i].digest]

\* the request served from what h.Referrers returns, and what the client
\* keeps of it
RequestOver(found, subject, artifactType, n, nextToken, forged, first) ==
      \E r \in {getReferrers(found, subject, artifactType, n, nextToken)},
         l \in {DigestsOfList(found.referrers)} :
        api' = [api EXCEPT !.route = "oras",
                           !.requests = IF first THEN 1 ELSE @ + 1,
                           !.artifactType = artifactType, !.n = n,
                           !.nextToken = nextToken, !.forged = forged,
                           !.response = r, !.listing = l,
                           !.pages = IF first THEN <<DigestsOfList(r.referrers)>>
                                     ELSE Append(@, DigestsOfList(r.referrers)),
                           !.stable = IF first THEN TRUE ELSE @ /\ l = api.listing,
                           !.inserted = 0]

\* GET referrers on the ORAS route with the parameters artifactType, n and
\* nextToken
ORASRequest(name, subject, artifactType, n, nextToken, forged, first) ==
    \E found \in {Referrers(store, name, subject, artifactType, api.oracle)} :
        RequestOver(found, subject, artifactType, n, nextToken, forged, first)

\* a client starts to list the referrers of subject
GetFirstPage(name, subject, artifactType, n) ==
    /\ gc.pc = "idle"
    /\ ORASRequest(name, subject, artifactType, n, NoToken, FALSE, TRUE)
    /\ UNCHANGED <<store, puts, acked, gc>>

\* the client follows the Link header of the last response
GetNextPage(name, subject) ==
    /\ gc.pc = "idle"
    /\ api.route = "oras" /\ api.requests > 0 /\ ~api.forged
    /\ api.response.link.present
    /\ ORASRequest(name, subject, api.response.link.artifactType, api.response.link.n,
                   api.response.link.nextToken, FALSE, FALSE)
    /\ UNCHANGED <<store, puts, acked, gc>>

\* a client sends a nextToken of its own making
GetWithToken(name, subject, artifactType, n, nextToken) ==
    /\ gc.pc = "idle"
    /\ ORASRequest(name, subject, artifactType, n, nextToken, TRUE, TRUE)
    /\ UNCHANGED <<store, puts, acked, gc>>

\* GET referrers on the OCI route
GetOCIReferrers(name, subject, artifactType) ==
    /\ gc.pc = "idle"
    /\ \E r \in {GetReferrers(store, name, subject, artifactType)} :
        api' = [NoAPI EXCEPT !.oracle = api.oracle, !.route = "oci", !.requests = 1,
                             !.artifactType = artifactType, !.response = r,
                             !.listing = DigestsOfList(r.referrers),
                             !.pages = <<DigestsOfList(r.referrers)>>]
    /\ UNCHANGED <<store, puts, acked, gc>>

\* manifestStore.Put of a referrer, not interrupted.  The list of referrers
\* has changed: sort.Slice may order equal timestamps in another way.
PutReferrer(name, b) ==
    /\ gc.pc = "idle"
    /\ ClientManifest(b) # NoManifest
    /\ store' = PutOutcome(store, name, ClientManifest(b), FALSE).store
    /\ store' # store
    /\ api.response.link.present => api.inserted < MaxInsertions
    /\ \E o \in Oracles :
          \* a client that was given no Link header has finished
          api' = IF api.response.link.present
                 THEN [api EXCEPT !.oracle = o, !.inserted = @ + 1]
                 ELSE [NoAPI EXCEPT !.oracle = o]
    /\ UNCHANGED <<puts, acked, gc>>

----------------------------------------------------------------------------
(* manifestStore.Put step by step: verification, then one storage driver    *)
(* write after the other.  A write may fail, which ends the Put where it    *)
(* stands.                                                                  *)

\* the handler returns
Returned(q, digest, err) == [q EXCEPT !.pc = "returned", !.digest = digest, !.err = err]

\* the write the handler makes at each position, in the order of its Put:
\* blobStore.Put (blob data, then the revision link), then indexReferrers
PutStepWriteLinkFirst(pc, st, name, m) ==
    LET b == Payload(m).bytes
    IN  CASE pc = "blob" -> IndexReferrers(st, name, m, FromBytes(b))
          [] pc = "link" -> LinkBlob(st, manifestRevisionLinkPath(name, FromBytes(b)), FromBytes(b))
          [] pc = "index" -> WriteBlob(st, b)

PutStepWrite(pc, st, name, m) ==
    LET b == Payload(m).bytes
    IN  CASE pc = "blob" -> WriteBlob(st, b)
          [] pc = "link" -> LinkBlob(st, manifestRevisionLinkPath(name, FromBytes(b)), FromBytes(b))
          [] pc = "index" -> IndexReferrers(st, name, m, FromBytes(b))

\* a client calls manifestStore.Put(manifest); skip is the store's
\* skipDependencyVerification option
StartPut(p, name, b, skip) ==
    /\ puts[p].pc = "idle"
    /\ ClientManifest(b) # NoManifest
    /\ puts' = [puts EXCEPT ![p] =
                   [IdlePut EXCEPT !.pc = "verify", !.name = name,
                                   !.manifest = ClientManifest(b), !.skip = skip,
                                   !.repeat = \E a \in acked : a.name = name /\ a.bytes = b]]
    /\ UNCHANGED <<store, acked, gc, api>>

\* the type switch and the handler's verification; an error is returned at once
VerifyStep(p) ==
    LET q == puts[p]
        v == PutVerdict(store, q.name, q.manifest, q.skip)
    IN  /\ q.pc = "verify"
        /\ puts' = [puts EXCEPT ![p] = IF v.kind # "nil" THEN Returned(q, "", v)
                                       ELSE [q EXCEPT !.pc = "blob"]]
        /\ UNCHANGED <<store, acked, gc, api>>

\* blobStore.Put writes the payload under its digest
WritePayloadStep(p) ==
    LET q == puts[p]
    IN  /\ q.pc = "blob"
        /\ store' = PutStepWrite("blob", store, q.name, q.manifest)
        /\ puts' = [puts EXCEPT ![p].pc = "link"]
        /\ UNCHANGED <<acked, gc, api>>

\* blobStore.Put links the revision into the repository
LinkRevisionStep(p) ==
    LET q == puts[p]
    IN  /\ q.pc = "link"
        /\ store' = PutStepWrite("link", store, q.name, q.manifest)
        /\ puts' = [puts EXCEPT ![p].pc = "index"]
        /\ UNCHANGED <<acked, gc, api>>

\* (variant: the link replaces what is filed under the subject)
IndexReferrersStepReplacing(p) ==
    LET q == puts[p]
        revision == FromBytes(Payload(q.manifest).bytes)
        cleared == IF Len(q.manifest.doc.subject) = 0 THEN store
                   ELSE Delete(store, referrersSubjectPath(q.name, q.manifest.doc.subject[1].digest))
    IN  /\ q.pc = "index"
        /\ store' = PutStepWrite("index", cleared, q.name, q.manifest)
        /\ puts' = [puts EXCEPT ![p] = Returned(q, revision, NilError)]
        /\ acked' = acked \cup {[name |-> q.name, bytes |-> Payload(q.manifest).bytes,
                                 digest |-> revision]}
        /\ UNCHANGED <<gc, api>>

\* indexReferrers, then the handler returns the revision digest
IndexReferrersStep(p) ==
    LET q == puts[p]
        revision == FromBytes(Payload(q.manifest).bytes)
    IN  /\ q.pc = "index"
        /\ store' = PutStepWrite("index", store, q.name, q.manifest)
        /\ puts' = [puts EXCEPT ![p] = Returned(q, revision, NilError)]
        /\ acked' = acked \cup {[name |-> q.name, bytes |-> Payload(q.manifest).bytes,
                                 digest |-> revision]}
        /\ UNCHANGED <<gc, api>>

\* the storage driver fails the write the Put stands at (or the request is
\* cut there): the handler returns the error, what was written stays
StorageFailure(p) ==
    LET q == puts[p]
    IN  /\ q.pc \in {"blob", "link", "index"}
        /\ puts' = [puts EXCEPT ![p] = Returned(q, "", BareError("storage driver error"))]
        /\ UNCHANGED <<store, acked, gc, api>>

\* the client has its answer
Respond(p) ==
    /\ puts[p].pc = "returned"
    /\ puts' = [puts EXCEPT ![p] = IdlePut]
    /\ UNCHANGED <<store, acked, gc, api>>

\* manifestStore.Put of the manifest m, a whole request that no storage error
\* interrupts; the client keeps the answer
PutRequest(p, name, m, skip) ==
    /\ gc.pc = "idle"
    /\ m # NoManifest
    /\ \E o \in {PutOutcome(store, name, m, skip)} :
          /\ store' = o.store
          /\ puts' = [puts EXCEPT ![p] =
                         Returned([IdlePut EXCEPT !.name = name, !.manifest = m,
                                                  !.skip = skip], o.digest, o.err)]
    /\ UNCHANGED <<acked, gc, api>>

----------------------------------------------------------------------------
(* MarkAndSweep, run with no concurrent writes *)

GCRecord(opts, mk, enumerated, removed, err) ==
    [ran |-> TRUE, opts |-> opts, before |-> store, markSet |-> mk.markSet,
     manifestArr |-> mk.manifestArr, artifactManifestIndex |-> mk.artifactManifestIndex,
     enumerated |-> enumerated, removedBlobs |-> removed, err |-> err,
     pc |-> "done", seen |-> {}, swept |-> {}, deleteSet |-> {}]

\* the paths the manifest sweep deletes
ManifestSweepPaths(st, manifestArr) ==
    UNION {RemoveManifestPaths(st, o.name, o.digest, o.tags) : o \in manifestArr}

\* the paths the artifact sweep deletes for the digests ds of the index
ArtifactSweepPaths(index, ds) ==
    UNION {RemoveArtifactManifestPaths(index[d], d) : d \in ds}

\* the loop over deleteSet: with DryRun every digest is skipped
BlobSweepIgnoringDryRun(st, deleteSet, opts) ==
    DeleteAll(st, UNION {RemoveBlobPaths(d) : d \in deleteSet})

BlobSweep(st, deleteSet, opts) ==
    IF opts.dryRun THEN st
    ELSE DeleteAll(st, UNION {RemoveBlobPaths(d) : d \in deleteSet})

MarkAndSweep(opts) ==
    /\ gc.pc = "idle"
    /\ \A p \in Procs : puts[p].pc = "idle"
    /\ UNCHANGED <<puts, acked, api>>
    /\ \E mk \in {Mark(store, opts)} :
         IF mk.err
         THEN /\ store' = store
              /\ gc' = GCRecord(opts, mk, {}, {}, "failed to mark")
         ELSE IF opts.dryRun
         \* the sweep of manifests and artifacts is skipped, the blob sweep is not
         THEN \E deleteSet \in {DeleteSet(store, mk.markSet)} :
                 /\ store' = BlobSweep(store, deleteSet, opts)
                 /\ gc' = GCRecord(opts, mk, BlobEnumerate(store), {}, "")
         ELSE \E index \in {mk.artifactManifestIndex},
                 \* sweep of the manifests scheduled for deletion
                 st1 \in {DeleteAll(store, ManifestSweepPaths(store, mk.manifestArr))} :
                \E failing \in {{d \in DOMAIN index :
                                    RemoveArtifactManifestFails(st1, index[d], d)}} :
                  IF failing # {}
                  \* the index is a Go map: the artifacts removed before the
                  \* failing one are any of the others
                  THEN \E done \in SUBSET ((DOMAIN index) \ failing) :
                          /\ store' = DeleteAll(st1, ArtifactSweepPaths(index, done))
                          /\ gc' = GCRecord(opts, mk, {}, {},
                                            "failed to delete artifact manifest")
                  ELSE \E st2 \in {DeleteAll(st1, ArtifactSweepPaths(index, DOMAIN index))} :
                          \E deleteSet \in {DeleteSet(st2, mk.markSet)} :
                             /\ store' = BlobSweep(st2, deleteSet, opts)
                             /\ gc' = GCRecord(opts, mk, BlobEnumerate(st2), deleteSet, "")

----------------------------------------------------------------------------
(* MarkAndSweep step by step: one manifest marked, one manifest, artifact   *)
(* or blob removed at a time                                                *)

\* every manifest of every repository
AllManifests(st) ==
    UNION {{[name |-> name, digest |-> d] : d \in ManifestLinks(st, name)}
              : name \in RepositoryNames(st)}

\* the manifests the enumeration may hand to the callback next: those of the
\* first repository that has manifests left
NextToMark(st, seen) ==
    LET left == AllManifests(st) \ seen
        repos == {i \in DOMAIN RepositoryOrder : \E x \in left : x.name = RepositoryOrder[i]}
    IN  {x \in left : \A j \in repos : x.name = RepositoryOrder[j] => \A k \in repos : j <= k}

\* repositoryEnumerator.Enumerate has returned: nothing is left to enumerate
MarkFinishedEarly(st, seen) == seen # {}

MarkFinished(st, seen) == AllManifests(st) \subseteq seen

\* MarkAndSweep is called
StartMarkAndSweep(opts) ==
    /\ gc.pc = "idle"
    /\ \A p \in Procs : puts[p].pc = "idle"
    /\ gc' = [NoGC EXCEPT !.pc = "mark", !.opts = opts, !.before = store]
    /\ UNCHANGED <<store, puts, acked, api>>

\* the callback of the manifest enumeration for one manifest; an error ends
\* the enumeration and MarkAndSweep returns "failed to mark"
MarkStep ==
    /\ gc.pc = "mark"
    /\ \E x \in NextToMark(store, gc.seen) :
         \E m \in {MarkManifest(store, x.name, x.digest, gc.opts)} :
            gc' = IF m.err
                  THEN [gc EXCEPT !.pc = "done", !.ran = TRUE, !.err = "failed to mark",
                                  !.seen = @ \cup {x}]
                  ELSE [gc EXCEPT !.seen = @ \cup {x},
                                  !.markSet = @ \cup m.marks,
                                  !.manifestArr = @ \cup m.dels,
                                  !.artifactManifestIndex =
                                      [d \in DOMAIN gc.artifactManifestIndex \cup m.index |->
                                          IF d \in m.index THEN x.name
                                          ELSE gc.artifactManifestIndex[d]]]
    /\ UNCHANGED <<store, puts, acked, api>>

\* the enumeration returns without error: the sweep starts
EndMark ==
    /\ gc.pc = "mark"
    /\ MarkFinished(store, gc.seen)
    /\ gc' = [gc EXCEPT !.pc = IF gc.opts.dryRun THEN "enumerate" ELSE "manifests"]
    /\ UNCHANGED <<store, puts, acked, api>>

\* vacuum.RemoveManifest of one manifest of manifestArr, then the artifacts
SweepManifestStep ==
    /\ gc.pc = "manifests"
    /\ IF gc.manifestArr \subseteq gc.swept
       THEN /\ gc' = [gc EXCEPT !.pc = "artifacts", !.swept = {}]
            /\ store' = store
       ELSE \E o \in gc.manifestArr \ gc.swept :
               /\ store' = DeleteAll(store, RemoveManifestPaths(store, o.name, o.digest, o.tags))
               /\ gc' = [gc EXCEPT !.swept = @ \cup {o}]
    /\ UNCHANGED <<puts, acked, api>>

\* vacuum.RemoveArtifactManifest of one artifact of the index; an error ends
\* MarkAndSweep
SweepArtifactStep ==
    /\ gc.pc = "artifacts"
    /\ IF DOMAIN gc.artifactManifestIndex \subseteq gc.swept
       THEN /\ gc' = [gc EXCEPT !.pc = "enumerate", !.swept = {}]
            /\ store' = store
       ELSE \E d \in DOMAIN gc.artifactManifestIndex \ gc.swept :
               IF RemoveArtifactManifestFails(store, gc.artifactManifestIndex[d], d)
               THEN /\ gc' = [gc EXCEPT !.pc = "done", !.ran = TRUE,
                                        !.err = "failed to delete artifact manifest"]
                    /\ store' = store
               ELSE /\ store' = DeleteAll(store, ArtifactSweepPaths(gc.artifactManifestIndex, {d}))
                    /\ gc' = [gc EXCEPT !.swept = @ \cup {d}]
    /\ UNCHANGED <<puts, acked, api>>

\* blobService.Enumerate fills deleteSet
EnumerateBlobsStep ==
    /\ gc.pc = "enumerate"
    /\ gc' = [gc EXCEPT !.pc = "blobs", !.enumerated = BlobEnumerate(store),
                        !.deleteSet = DeleteSet(store, gc.markSet)]
    /\ UNCHANGED <<store, puts, acked, api>>

\* (variant: the digest stays in deleteSet)
BlobSweepStepKeeping ==
    /\ gc.pc = "blobs"
    /\ IF gc.deleteSet = {}
       THEN /\ gc' = [gc EXCEPT !.pc = "done", !.ran = TRUE]
            /\ store' = store
       ELSE \E d \in gc.deleteSet :
               /\ store' = BlobSweep(store, {d}, gc.opts)
               /\ gc' = [gc EXCEPT !.removedBlobs = IF gc.opts.dryRun THEN @ ELSE @ \cup {d}]
    /\ UNCHANGED <<puts, acked, api>>

\* the loop over deleteSet, one digest at a time, then MarkAndSweep returns
BlobSweepStep ==
    /\ gc.pc = "blobs"
    /\ IF gc.deleteSet = {}
       THEN /\ gc' = [gc EXCEPT !.pc = "done", !.ran = TRUE]
            /\ store' = store
       ELSE \E d \in gc.deleteSet :
               /\ store' = BlobSweep(store, {d}, gc.opts)
               /\ gc' = [gc EXCEPT !.deleteSet = @ \ {d},
                                   !.removedBlobs = IF gc.opts.dryRun THEN @ ELSE @ \cup {d}]
    /\ UNCHANGED <<puts, acked, api>>

----------------------------------------------------------------------------
(* The registry with one repository and the garbage collector *)

GCManifests == {"I1", "A1", "A2", "O1"}

Next ==
    \/ \E b \in BlobBytes : PushBlob("r1", b)
    \/ \E b \in GCManifests : PutManifest("r1", b)
    \/ \E t \in Tags, b \in GCManifests : Tag("r1", t, FromBytes(b))
    \/ \E t \in Tags : Untag("r1", t)
    \/ \E o \in GCOpts : MarkAndSweep(o)

Spec == Init /\ [][Next]_vars

----------------------------------------------------------------------------
(* The registry with one repository and the garbage collector step by step *)

SweepManifests == {"I1", "A1", "A2", "O1"}

SweepBlobs == {"L1", "B1", "B2"}

NextSweep ==
    \/ \E b \in SweepBlobs : PushBlob("r1", b)
    \/ \E b \in SweepManifests : PutManifest("r1", b)
    \/ \E b \in SweepManifests : Tag("r1", "t1", FromBytes(b))
    \/ Untag("r1", "t1")
    \/ \E o \in GCOpts : StartMarkAndSweep(o)
    \/ MarkStep
    \/ EndMark
    \/ SweepManifestStep
    \/ SweepArtifactStep
    \/ EnumerateBlobsStep
    \/ BlobSweepStep

SpecSweep == Init /\ [][NextSweep]_vars

----------------------------------------------------------------------------
(* The registry with one subject, its referrers and the clients of the      *)
(* referrers API                                                            *)

\* the referrers of I1 that clients put
RefManifests == {"A1", "A3", "A4", "A5", "A6", "A7", "O1", "X1"}

ArtifactTypeFilters == {"", "sig", "sbom"}

\* the values of the parameter n: none, and the smallest page size
PageSizes == {<< >>, <<3>>}

\* the tokens a client makes up: not base64, an invalid digest, and digests
\* that are or are not referrers
ForgedTokens ==
    {[present |-> TRUE, base64 |-> FALSE, digests |-> << >>],
     EncodeToken(<<"invalid">>),
     EncodeToken(<<FromBytes("L1")>>),
     EncodeToken(<<FromBytes("B2"), FromBytes("L1"), FromBytes("I1")>>),
     EncodeToken(<<FromBytes("A7")>>),
     EncodeToken(<<FromBytes("A1"), FromBytes("L1")>>)}

NextReferrers ==
    \/ PushBlob("r1", "L1")
    \/ PushBlob("r1", "B1")
    \/ PutManifest("r1", "I1")
    \/ \E b \in RefManifests : PutReferrer("r1", b)
    \/ \E t \in ArtifactTypeFilters, n \in PageSizes : GetFirstPage("r1", FromBytes("I1"), t, n)
    \/ GetNextPage("r1", FromBytes("I1"))
    \/ \E k \in ForgedTokens : GetWithToken("r1", FromBytes("I1"), "", <<3>>, k)
    \/ \E t \in {"", "sig", MediaTypeImageConfig} : GetOCIReferrers("r1", FromBytes("I1"), t)

SpecReferrers == Init /\ [][NextReferrers]_vars

----------------------------------------------------------------------------
(* Clients that delete manifests, and the garbage collector *)

\* linkedBlobStore.Delete: removes the link of the digest
LinkedBlobStoreDelete(st, linkPath) == Delete(st, linkPath)

\* manifestStore.Delete
ManifestDelete(st, name, d) == LinkedBlobStoreDelete(st, manifestRevisionLinkPath(name, d))

\* DELETE of a manifest of the repository, a whole request
DeleteManifest(name, d) ==
    /\ gc.pc = "idle"
    /\ ManifestExists(store, name, d)
    /\ store' = ManifestDelete(store, name, d)
    /\ UNCHANGED <<puts, acked, gc, api>>

DeleteBlobs == {"L1", "B1"}

DeleteManifests == {"I1", "A1", "O1"}

NextDelete ==
    \/ \E b \in DeleteBlobs : PushBlob("r1", b)
    \/ \E b \in DeleteManifests : PutManifest("r1", b)
    \/ \E b \in DeleteManifests : Tag("r1", "t1", FromBytes(b))
    \/ Untag("r1", "t1")
    \/ \E b \in DeleteManifests : DeleteManifest("r1", FromBytes(b))
    \/ \E o \in GCOpts : MarkAndSweep(o)

SpecDelete == Init /\ [][NextDelete]_vars

----------------------------------------------------------------------------
(* Two repositories: clients that upload blobs and put manifests in both *)

LocalityBlobs == {"L1", "B1"}

LocalityManifests == {"I1", "A1", "O1", "X1"}

NextLocality ==
    \/ \E name \in Repositories, b \in LocalityBlobs : PushBlob(name, b)
    \/ \E name \in Repositories, b \in LocalityManifests, skip \in BOOLEAN :
          PutRequest("p1", name, ClientManifest(b), skip)

SpecLocality == Init /\ [][NextLocality]_vars

----------------------------------------------------------------------------
(* MarkAndSweep step by step while a client puts a referrer, each Put one   *)
(* storage step after the other                                             *)

LiveBlobs == {"L1", "B1"}

LiveManifests == {"I1", "A1", "O1"}

\* the referrers the client puts while the collector may be running
LiveReferrers == {"A1", "O1"}

NextLive ==
    \/ \E b \in LiveBlobs : PushBlob("r1", b)
    \/ \E b \in LiveManifests : PutManifest("r1", b)
    \/ \E b \in LiveManifests : Tag("r1", "t1", FromBytes(b))
    \/ Untag("r1", "t1")
    \/ \E o \in GCOpts : StartMarkAndSweep(o)
    \/ MarkStep
    \/ EndMark
    \/ SweepManifestStep
    \/ SweepArtifactStep
    \/ EnumerateBlobsStep
    \/ BlobSweepStep
    \/ \E b \in LiveReferrers : StartPut("p1", "r1", b, FALSE)
    \/ VerifyStep("p1")
    \/ WritePayloadStep("p1")
    \/ LinkRevisionStep("p1")
    \/ IndexReferrersStep("p1")
    \/ Respond("p1")

SpecLive == Init /\ [][NextLive]_vars

----------------------------------------------------------------------------
(* Clients that get manifests of every kind from a registry that is run     *)
(* with one set of extensions or another                                    *)

\* the payloads stored in the repository through its blob store
GetPayloads == {"S1", "S2", "ML", "IX0", "I0", "U2"}

\* the manifests put through the manifest store
GetManifests == {"I1", "A1", "O1"}

\* the extension handlers a registry may be configured with
Registrations == {<<"oras", "ociartifact">>, <<"ociartifact", "oras">>, << >>}

\* a client calls manifestStore.Get(dgst) and keeps the answer
GetManifest(p, handlers, name, d) ==
    /\ gc.pc = "idle"
    /\ \E r \in {ManifestStoreGet(handlers, store, name, d)} :
          puts' = [puts EXCEPT ![p] =
                      [pc |-> "returned", name |-> name, manifest |-> r.manifest,
                       skip |-> FALSE, repeat |-> FALSE, digest |-> d, err |-> r.err,
                       handlers |-> handlers]]
    /\ UNCHANGED <<store, acked, gc, api>>

NextGet ==
    \/ \E b \in GetPayloads : PushBlob("r1", b)
    \/ \E b \in GetManifests : PutRequest("p1", "r1", ClientManifest(b), TRUE)
    \/ \E b \in GetPayloads \cup GetManifests, handlers \in Registrations :
          GetManifest("p1", handlers, "r1", FromBytes(b))

SpecGet == Init /\ [][NextGet]_vars

----------------------------------------------------------------------------
(* Two clients that put referrers of one subject at the same time, each Put *)
(* one storage step after the other, with no storage error                  *)

ConcurrentBlobs == {"L1", "B1", "I1"}

\* the referrers of the image I1 the clients put: an ORAS artifact, an OCI
\* artifact and an image
ConcurrentReferrers == {"A1", "O1", "X1"}

NextConcurrent ==
    \/ \E b \in ConcurrentBlobs : PushBlob("r1", b)
    \/ PutManifest("r1", "I1")
    \/ \E p \in Procs, b \in ConcurrentReferrers : StartPut(p, "r1", b, FALSE)
    \/ \E p \in Procs : VerifyStep(p)
    \/ \E p \in Procs : WritePayloadStep(p)
    \/ \E p \in Procs : LinkRevisionStep(p)
    \/ \E p \in Procs : IndexReferrersStep(p)
    \/ \E p \in Procs : Respond(p)

SpecConcurrent == Init /\ [][NextConcurrent]_vars

----------------------------------------------------------------------------
(* Clients that put manifests that keep or break the rules of verification  *)

\* blobs uploaded to the repository, the bytes of the image I1 among them
VerifyBlobs == {"L1", "B1", "B2", "I1"}

\* the manifests clients build (FromStruct) and put
VerifyManifests ==
    {TypedManifest("ocischema", b) : b \in {"I1", "X1", "I2", "I3"}}
        \cup {TypedManifest("oras", b) : b \in {"A1", "A8", "A9", "A10", "A11", "A12"}}
        \cup {TypedManifest("ociartifact", b) : b \in {"O1", "O2", "O3", "O4", "O5"}}

NextVerify ==
    \/ \E b \in VerifyBlobs : PushBlob("r1", b)
    \/ PushBlob("r2", "I1")
    \/ \E m \in VerifyManifests : PutRequest("p1", "r1", m, FALSE)

SpecVerify == Init /\ [][NextVerify]_vars

----------------------------------------------------------------------------
(* Clients of the referrers API that list a subject with many referrers     *)

\* the longest list of referrers
MaxListLength == 101

\* the lengths of the lists: about the smallest and the largest page size,
\* and more than two of the largest pages
ListLengths == {0, 2, 3, 4, 7, 49, 50, 51, 52, 100, MaxListLength}

\* the values of the parameter n: none or not a number, and numbers below,
\* in and above the range of page sizes
PageParameters ==
    {<< >>, <<-1>>, <<0>>, <<2>>, <<3>>, <<4>>, <<49>>, <<50>>, <<51>>, <<100>>}

\* what h.Referrers returns for a subject with N referrers
ManyReferrers(N) ==
    [err |-> "",
     referrers |-> << >> \o [i \in 1..N |->
                               [mediaType |-> MediaTypeORASArtifactManifest,
                                digest |-> FromBytes(ToString(i)),
                                artifactType |-> "sig"]]]

\* a client starts to list the N referrers of a subject
ListFirstPage(N, n) ==
    /\ gc.pc = "idle"
    /\ RequestOver(ManyReferrers(N), FromBytes("I1"), "", n, NoToken, FALSE, TRUE)
    /\ UNCHANGED <<store, puts, acked, gc>>

\* the client follows the Link header of the last response
ListNextPage ==
    /\ gc.pc = "idle"
    /\ api.route = "oras" /\ api.requests > 0
    /\ api.response.link.present
    /\ RequestOver(ManyReferrers(Len(api.listing)), FromBytes("I1"),
                   api.response.link.artifactType, api.response.link.n,
                   api.response.link.nextToken, FALSE, FALSE)
    /\ UNCHANGED <<store, puts, acked, gc>>

NextPages ==
    \/ \E N \in ListLengths, n \in PageParameters : ListFirstPage(N, n)
    \/ ListNextPage

SpecPages == Init /\ [][NextPages]_vars

----------------------------------------------------------------------------
(* Clients that upload blobs and put manifests, the Puts step by step *)

\* blobs uploaded as layers: two opaque blobs and the bytes of the image I1
PutBlobs == {"L1", "B1", "I1"}

PutManifests == {"I1", "A1", "O1", "X1"}

\* the process that puts
Putters == {"p1"}

NextPut ==
    \/ \E b \in PutBlobs : PushBlob("r1", b)
    \/ PushBlob("r2", "B1")
    \/ \E p \in Putters, b \in PutManifests, skip \in BOOLEAN : StartPut(p, "r1", b, skip)
    \/ \E p \in Putters : VerifyStep(p)
    \/ \E p \in Putters : WritePayloadStep(p)
    \/ \E p \in Putters : LinkRevisionStep(p)
    \/ \E p \in Putters : IndexReferrersStep(p)
    \/ \E p \in Putters : StorageFailure(p)
    \/ \E p \in Putters : Respond(p)

SpecPut == Init /\ [][NextPut]_vars

----------------------------------------------------------------------------
(* Garbage collection: claims *)

\* a completed run that was allowed to delete
GCSwept == gc.ran /\ ~gc.opts.dryRun /\ gc.err = ""

ArtifactMediaTypes == {MediaTypeORASArtifactManifest, MediaTypeOCIArtifactManifest}

\* the revision link, the manifest blob and every referenced blob of d in name
ManifestIntact(st, before, name, d) ==
    /\ manifestRevisionLinkPath(name, d) \in DOMAIN st.files
    /\ BlobStat(st, d)
    /\ \A ref \in DigestsOf(References(ManifestGet(before, name, d))) : BlobStat(st, ref)

\* the referrers of the digests of S in name, through chains of referrer links
RECURSIVE ReferrerClosure(_, _, _)
ReferrerClosure(st, name, S) ==
    LET next == S \cup UNION {ReferrerLinkTargets(st, referrersSubjectPath(name, d)) : d \in S}
    IN  IF next = S THEN S ELSE ReferrerClosure(st, name, next)

\* C1: after a MarkAndSweep that completed with DryRun=false, every manifest
\* that had a tag when the run started still has its revision link, its
\* manifest blob and every blob of its References().
C1_TaggedContentSurvives ==
    GCSwept =>
        \A name \in Repositories : \A d \in ManifestLinks(gc.before, name) :
            TagsLookup(gc.before, name, d) # {} => ManifestIntact(store, gc.before, name, d)

\* C2: after a MarkAndSweep with RemoveUntagged=true and DryRun=false, every
\* untagged referrer reachable through referrer links from a tagged
\* non-artifact manifest is intact, together with that manifest.
C2_ReferrersOfTaggedSurvive ==
    (GCSwept /\ gc.opts.removeUntagged) =>
        \A name \in Repositories : \A i \in ManifestLinks(gc.before, name) :
            (/\ TagsLookup(gc.before, name, i) # {}
             /\ Payload(ManifestGet(gc.before, name, i)).mediaType \notin ArtifactMediaTypes)
            => \A a \in ReferrerClosure(gc.before, name, {i}) :
                   ManifestIntact(store, gc.before, name, a)

\* C3: after a MarkAndSweep with RemoveUntagged=true and DryRun=false was run
\* on an untagged non-artifact manifest I with an untagged referrer artifact
\* A, neither is a manifest of the repository any more, A's manifest blob and
\* blobs are gone from the blob store and the referrers root of I is gone.
C3_UntaggedSubjectAndReferrerRemoved ==
    (gc.ran /\ ~gc.opts.dryRun /\ gc.opts.removeUntagged) =>
        \A name \in Repositories : \A i \in ManifestLinks(gc.before, name) :
            \A a \in ReferrerLinkTargets(gc.before, referrersSubjectPath(name, i)) :
                (/\ TagsLookup(gc.before, name, i) = {}
                 /\ TagsLookup(gc.before, name, a) = {}
                 /\ TagsDirExists(gc.before, name)
                 /\ Payload(ManifestGet(gc.before, name, i)).mediaType \notin ArtifactMediaTypes
                 /\ Payload(ManifestGet(gc.before, name, a)).mediaType \in ArtifactMediaTypes
                 \* A's blobs are referenced by nothing else
                 /\ \A m \in ManifestLinks(gc.before, name) \ {a} :
                        DigestsOf(ManifestGet(gc.before, name, a).doc.blobs)
                            \cap DigestsOf(References(ManifestGet(gc.before, name, m))) = {})
                => /\ {i, a} \cap ManifestLinks(store, name) = {}
                   /\ ~BlobStat(store, a)
                   /\ \A b \in DigestsOf(ManifestGet(gc.before, name, a).doc.blobs) :
                          ~BlobStat(store, b)
                   /\ ~PathExists(store, referrersSubjectPath(name, i))

\* C4: the blob sweep removes a blob only if its digest is not in the mark
\* set, and a completed sweep with DryRun=false removes every enumerated
\* blob that is not in the mark set.
C4_SweepFollowsMarkSet ==
    gc.ran =>
        /\ gc.removedBlobs \cap gc.markSet = {}
        /\ \A d \in BlobEnumerate(gc.before) : ~BlobStat(store, d) => d \notin gc.markSet
        /\ GCSwept => \A d \in gc.enumerated \ gc.markSet :
                          d \in gc.removedBlobs /\ ~BlobStat(store, d)

C4_Witness ==
    /\ GCSwept
    /\ gc.removedBlobs # {}
    /\ \E d \in gc.markSet : BlobStat(store, d)

\* the manifest digests and referenced blobs that are reachable in name:
\* the tagged manifests and the artifacts that refer to them through chains
\* of referrer links
ReachableContent(st, name) ==
    LET tagged == {d \in ManifestLinks(st, name) : TagsLookup(st, name, d) # {}}
        live == ReferrerClosure(st, name, tagged)
    IN  live \cup UNION {DigestsOf(References(ManifestGet(st, name, d))) : d \in live}

\* C11: after a MarkAndSweep with RemoveUntagged=true and DryRun=false, every
\* blob digest that remains in the blob store is the manifest or a referenced
\* blob of a tagged manifest, or of an artifact reachable through referrer
\* links from a tagged manifest.
C11_NoUnreachableContent ==
    (GCSwept /\ gc.opts.removeUntagged) =>
        \A d \in BlobEnumerate(store) :
            \E name \in Repositories : d \in ReachableContent(gc.before, name)

\* the referrer subtree of i in name: its direct referrers and, recursively,
\* their referrers
ReferrerSubtree(st, name, i) == ReferrerClosure(st, name, {i}) \ {i}

\* C12: when MarkAndSweep (RemoveUntagged=true, DryRun=false) schedules an
\* untagged subject I for deletion, every untagged artifact of I's referrer
\* subtree is in the artifact deletion index and is no manifest of the
\* repository after the sweep, and the walk that starts at I marks none.
C12_ReferrerDeletionTransitive ==
    (GCSwept /\ gc.opts.removeUntagged) =>
        \A o \in gc.manifestArr :
            \A a \in ReferrerSubtree(gc.before, o.name, o.digest) :
                TagsLookup(gc.before, o.name, a) = {}
                => /\ a \in DOMAIN gc.artifactManifestIndex
                   /\ a \notin ManifestLinks(store, o.name)
                   /\ a \notin SweepWalk(gc.before, o.name, o.digest).marks

\* the entries of the store by kind: manifest revisions, tag links, referrer
\* links and blobs
StoreEntries(st) ==
    [revisions |-> [name \in Repositories |-> ManifestLinks(st, name)],
     tags |-> [name \in Repositories |->
                  {<<t, d>> \in Tags \X ManifestLinks(st, name) :
                      \/ manifestTagCurrentPath(name, t) \in DOMAIN st.files
                         /\ st.files[manifestTagCurrentPath(name, t)] = d
                      \/ manifestTagIndexEntryLinkPath(name, t, d) \in DOMAIN st.files}],
     referrers |-> [name \in Repositories |->
                       {<<i, a>> \in ManifestLinks(st, name) \X ManifestLinks(st, name) :
                           a \in ReferrerLinkTargets(st, referrersSubjectPath(name, i))}],
     blobs |-> BlobEnumerate(st)]

\* C13: a MarkAndSweep with DryRun=true leaves the store as it was, for
\* either value of RemoveUntagged: the manifest revisions, the tag links, the
\* referrer links and the blobs are the same before and after.
C13_DryRunDeletesNothing ==
    (gc.ran /\ gc.opts.dryRun) =>
        /\ StoreEntries(store) = StoreEntries(gc.before)
        /\ store = gc.before

\* a dry run with RemoveUntagged that found a manifest, an artifact and a blob
\* eligible for deletion
C13_Witness ==
    /\ gc.ran /\ gc.opts.dryRun /\ gc.opts.removeUntagged /\ gc.err = ""
    /\ gc.manifestArr # {}
    /\ DOMAIN gc.artifactManifestIndex # {}
    /\ DeleteSet(gc.before, gc.markSet) # {}
    /\ store = gc.before

\* a step of MarkAndSweep that deletes from the store
Deletes == gc.pc # "idle" /\ \E p \in DOMAIN store.files : p \notin DOMAIN store'.files

\* C14: MarkAndSweep deletes nothing before the mark phase has enumerated
\* every manifest of every repository, and when the mark phase ends with an
\* error MarkAndSweep returns an error and the store is as it was before.
C14_MarkPrecedesSweep ==
    [][/\ Deletes => /\ gc.pc \in {"manifests", "artifacts", "blobs"}
                     /\ AllManifests(gc.before) \subseteq gc.seen
       /\ gc.pc = "mark" => store' = gc.before
       /\ (gc.pc = "mark" /\ gc'.pc = "done")
              => gc'.ran /\ gc'.err = "failed to mark" /\ store' = gc.before]_vars

\* the sweep has deleted after a mark phase over at least two manifests
C14_Witness ==
    /\ gc.pc \in {"manifests", "artifacts", "blobs"}
    /\ Cardinality(gc.seen) >= 2
    /\ \E p \in DOMAIN gc.before.files : p \notin DOMAIN store.files

\* the mark phase has failed on the second manifest it enumerated
C14_MarkFailed ==
    /\ gc.ran /\ gc.err = "failed to mark"
    /\ Cardinality(gc.seen) >= 2
    /\ store = gc.before

\* the mark phase step by step collects what Mark computes at once
MarkStepsAgree ==
    (gc.pc \in {"manifests", "artifacts", "enumerate", "blobs"} \/ (gc.pc = "done" /\ gc.err # "failed to mark"))
        => \E mk \in {Mark(gc.before, gc.opts)} :
              /\ ~mk.err
              /\ gc.markSet = mk.markSet
              /\ gc.manifestArr = mk.manifestArr
              /\ gc.artifactManifestIndex = mk.artifactManifestIndex

----------------------------------------------------------------------------
(* Put: claims *)

HasSubject(m) == Len(m.doc.subject) > 0

\* the dependencies of a manifest that do not resolve in the repository:
\* blobs through the repository's blob statter, the subject through the
\* manifest service
Unresolved(st, name, m) ==
    {d \in DigestsOf(m.doc.config \o m.doc.layers \o m.doc.blobs) : ~LayerStat(st, name, d)}
        \cup {d \in DigestsOf(m.doc.subject) : ~ManifestExists(st, name, d)}

\* C5: in every state, also those a Put cut short leaves behind, a referrer
\* link implies that the referrer's manifest is stored (blob and revision
\* link) in the repository.
C5_PayloadBeforeLink ==
    \A name \in Repositories : \A f \in WalkLinks(store, referrersRootPath(name)) :
        RevisionStat(store, name, store.files[f])

\* a Put that was cut short left the manifest without its link
C5_Witness ==
    \E p \in Procs :
        LET q == puts[p]
            d == FromBytes(Payload(q.manifest).bytes)
        IN  /\ q.pc = "returned"
            /\ q.err = BareError("storage driver error")
            /\ HasSubject(q.manifest)
            /\ RevisionStat(store, q.name, d)
            /\ referrersLinkPath(q.name, q.manifest.doc.subject[1].digest, d)
                   \notin DOMAIN store.files

\* C6: a Put of an artifact manifest with a dependency that does not resolve
\* returns a verification aggregate that holds manifest-blob-unknown for
\* each such digest, and a Put that fails verification leaves the storage as
\* it was.
C6_FailedVerificationChangesNothing ==
    [][\A p \in Procs :
          LET q == puts[p]
              missing == Unresolved(store, q.name, q.manifest)
          IN  (q.pc = "verify" /\ puts'[p] # q) =>
                  /\ (q.manifest.type \in {"oras", "ociartifact"} /\ ~q.skip /\ missing # {})
                         => /\ puts'[p].pc = "returned"
                            /\ puts'[p].err.kind = "verification"
                            /\ \A d \in missing :
                                   ErrManifestBlobUnknown(d) \in Range(puts'[p].err.errs)
                  /\ puts'[p].pc = "returned" => store' = store]_vars

\* a Put of the ORAS artifact failed on its missing blob; its subject and
\* the subject's other referrer are in place, the artifact is not stored
C6_Witness ==
    \E p \in Procs :
        /\ puts[p].pc = "returned"
        /\ puts[p].manifest.type = "oras"
        /\ puts[p].err.kind = "verification"
        /\ ErrManifestBlobUnknown(FromBytes("B1")) \in Range(puts[p].err.errs)
        /\ RevisionStat(store, "r1", FromBytes("I1"))
        /\ ~BlobStat(store, FromBytes("A1"))
        /\ WalkLinks(store, referrersRootPath("r1")) = {}

\* C7: the referrer of every Put that succeeded is among the referrers
\* enumerated for its subject in its repository, in every later state.
C7_ReferrerDiscoverable ==
    \A a \in acked : \A s \in DigestsOf(Doc(a.bytes).subject) :
        a.digest \in enumerateReferrerLinks(store, a.name, s)

\* two referrers of the same subject were put one after the other
C7_Witness ==
    /\ \E a \in acked : a.bytes = "A1"
    /\ \E a \in acked : a.bytes = "O1"
    /\ {FromBytes("A1"), FromBytes("O1")}
           \subseteq enumerateReferrerLinks(store, "r1", FromBytes("I1"))

\* C8: for every Put that succeeded, Get of the returned digest yields a
\* manifest whose payload is the bytes that were put, and the digest of
\* these bytes is the returned digest.
C8_RoundTrip ==
    \A a \in acked :
        LET g == ManifestGet(store, a.name, a.digest)
        IN  /\ g # NoManifest
            /\ Payload(g).bytes = a.bytes
            /\ FromBytes(Payload(g).bytes) = a.digest

\* every variant was put with success
C8_Witness ==
    \A t \in {"ocischema", "oras", "ociartifact"} :
        \E a \in acked : ManifestGet(store, a.name, a.digest).type = t

\* the revision entries of a digest and the referrer links of a pair
RevisionEntries(st, name, d) ==
    {f \in WalkLinks(st, manifestRevisionsPath(name)) : f[Len(f) - 1] = d}

ReferrerEntries(st, name, s, d) ==
    {f \in WalkLinks(st, referrersSubjectPath(name, s)) : f[Len(f) - 1] = d}

OneEntryEach(st, a) ==
    /\ Cardinality(RevisionEntries(st, a.name, a.digest)) = 1
    /\ \A s \in DigestsOf(Doc(a.bytes).subject) :
           /\ Cardinality(ReferrerEntries(st, a.name, s, a.digest)) = 1
           /\ \A f \in ReferrerEntries(st, a.name, s, a.digest) : st.files[f] = a.digest

\* C9: a Put of a payload that was already put with success in the
\* repository writes nothing new and returns the same digest; there is one
\* revision entry for the digest and one referrer link for the pair, holding
\* the referrer's digest.
C9_IdempotentPut ==
    [][\A p \in Procs :
          LET q == puts[p]
          IN  (q.repeat /\ q.pc \in {"blob", "link", "index"} /\ puts'[p] # q) =>
                  /\ store' = store
                  /\ (puts'[p].pc = "returned" /\ puts'[p].err = NilError) =>
                         /\ \A a \in acked :
                                (a.name = q.name /\ a.bytes = Payload(q.manifest).bytes)
                                    => a.digest = puts'[p].digest
                         /\ acked' = acked
                         /\ \A a \in acked : OneEntryEach(store', a)]_vars

\* the second Put of a referrer returned
C9_Witness ==
    \E p \in Procs :
        /\ puts[p].pc = "returned"
        /\ puts[p].repeat
        /\ puts[p].err = NilError
        /\ HasSubject(puts[p].manifest)
        /\ \E a \in acked : a.digest = puts[p].digest /\ OneEntryEach(store, a)

----------------------------------------------------------------------------
(* Referrers API: claims *)

\* the subject the clients list the referrers of
ListedName == "r1"

ListedSubject == FromBytes("I1")

\* a request to the referrers API was answered in this step
Answered(route) == api' # api /\ store' = store /\ api'.route = route

\* the manifests of the repository that were put with the subject, of the
\* given manifest types
StoredReferrers(st, name, subject, types) ==
    {d \in ManifestLinks(st, name) :
        /\ ManifestGet(st, name, d).type \in types
        /\ HasSubject(ManifestGet(st, name, d))
        /\ ManifestGet(st, name, d).doc.subject[1].digest = subject}

\* the artifact type of a stored referrer: the artifactType of an artifact
\* manifest, the media type of the config of an image
ManifestArtifactType(m) ==
    IF m.type = "ocischema" THEN m.doc.config[1].mediaType ELSE m.doc.artifactType

\* the stored referrers a query with the filter t has to return
Matching(st, name, subject, types, t) ==
    {d \in StoredReferrers(st, name, subject, types) :
        t = "" \/ ManifestArtifactType(ManifestGet(st, name, d)) = t}

NoRepeats(list) == \A i, j \in DOMAIN list : list[i] = list[j] => i = j

CreatedOf(d) == ManifestGet(store, ListedName, d).doc.created

\* C16: in the list Referrers returns, every descriptor whose manifest has
\* the created annotation precedes every descriptor without it, the
\* annotated ones are in decreasing order of their timestamps (strictly,
\* where the timestamps differ), and the ones without are in the order of
\* the enumeration.
C16_SortOrder ==
    [][Answered("oras") =>
          \A i, j \in DOMAIN api'.listing : i < j =>
              LET ci == CreatedOf(api'.listing[i])
                  cj == CreatedOf(api'.listing[j])
              IN  /\ Len(cj) > 0 => Len(ci) > 0
                  /\ (Len(ci) > 0 /\ Len(cj) > 0) =>
                         /\ ci[1] >= cj[1]
                         /\ ci[1] # cj[1] => ci[1] > cj[1]
                  /\ (Len(ci) = 0 /\ Len(cj) = 0) =>
                         WalkRank(api'.listing[i]) < WalkRank(api'.listing[j])]_vars

\* a list with two timestamps that differ and two referrers without one
C16_Witness ==
    /\ api.route = "oras"
    /\ \E i, j \in DOMAIN api.listing :
          /\ i < j
          /\ Len(CreatedOf(api.listing[i])) > 0 /\ Len(CreatedOf(api.listing[j])) > 0
          /\ CreatedOf(api.listing[i])[1] > CreatedOf(api.listing[j])[1]
    /\ Cardinality({i \in DOMAIN api.listing : Len(CreatedOf(api.listing[i])) = 0}) >= 2

\* the pages of a client so far, one after the other
RECURSIVE Concat(_)
Concat(pages) == IF pages = << >> THEN << >> ELSE Head(pages) \o Concat(Tail(pages))

\* the lengths of the pages a client gets that follows the Link headers
\* from the token nextToken on over a list that does not change
RECURSIVE PageLengths(_, _, _, _)
PageLengths(list, artifactType, n, tokenDigests) ==
    CHOOSE ls \in
        {IF r.link.present
         THEN <<Len(r.referrers)>> \o PageLengths(list, r.link.artifactType, r.link.n,
                                                 Range(r.link.nextToken.digests))
         ELSE <<Len(r.referrers)>>
         : r \in {Paginate(list, artifactType, n, tokenDigests)}} : TRUE

\* the example: 120 referrers listed with n=50
ExamplePages ==
    PageLengths([i \in 1..120 |-> [digest |-> i]], "", <<50>>, {})

\* C17: a client that starts without a token and follows the Link headers
\* over a list of N referrers that does not change gets consecutive pages
\* of the list, each of exactly n referrers except the last; when no Link
\* header comes the pages make up the whole list, each referrer once, in
\* ceil(N/n) pages.  120 referrers with n=50 come as 50, 50 and 20.
C17_PagesCoverList ==
    /\ (api.route = "oras" /\ api.requests > 0 /\ ~api.forged /\ api.stable) =>
          LET n == PageSize(api.n)
              N == Len(api.listing)
              k == Len(api.pages)
              all == Concat(api.pages)
          IN  /\ api.response.status = "ok"
              /\ k = api.requests
              /\ \A i \in 1..(k - 1) : Len(api.pages[i]) = n
              /\ Len(api.pages[k]) <= n
              /\ Len(all) <= N /\ all = SubSeq(api.listing, 1, Len(all))
              /\ api.response.link.present => Len(api.pages[k]) = n /\ Len(all) < N
              /\ ~api.response.link.present =>
                    /\ all = api.listing
                    /\ N > 0 => (k - 1) * n < N /\ N <= k * n
    /\ store = EmptyStore => ExamplePages = <<50, 50, 20>>

\* a client got a list that did not change in two pages, the first with a
\* Link header
C17_Witness ==
    /\ api.route = "oras" /\ ~api.forged /\ api.stable
    /\ api.requests = 2 /\ ~api.response.link.present
    /\ Len(api.pages[1]) = 3 /\ Len(api.pages[2]) = 3
    /\ Concat(api.pages) = api.listing

\* the position of the last referrer of the page in the list
LastReturned(list, page) ==
    CHOOSE i \in DOMAIN list : list[i] = page[Len(page)]

\* C18: a response of the referrers API has a Link header with rel="next"
\* if and only if a referrer of the list of the request follows the last
\* referrer of the page; a response with the end of the list has none.
C18_LinkIffMore ==
    (api.route = "oras" /\ api.requests > 0 /\ api.response.status = "ok") =>
        LET page == DigestsOfList(api.response.referrers)
        IN  /\ Len(page) = 0 => Len(api.listing) = 0
            /\ \A i \in DOMAIN page : \E j \in DOMAIN api.listing : api.listing[j] = page[i]
            /\ api.response.link.present <=>
                  (Len(page) > 0 /\ LastReturned(api.listing, page) < Len(api.listing))

\* a page with a Link header, and referrers after it
C18_Witness ==
    /\ api.route = "oras" /\ api.response.status = "ok"
    /\ api.response.link.present
    /\ Len(api.response.referrers) < Len(api.listing)

\* C19: a request with a nextToken that decodes to valid digests none of
\* which is in the list fails with malformed-next-token and returns no
\* referrers, whatever the length of the list.
C19_UnknownTokenRejected ==
    (/\ api.route = "oras" /\ api.forged
     /\ api.nextToken.present /\ api.nextToken.base64
     /\ \A i \in DOMAIN api.nextToken.digests : DigestValid(api.nextToken.digests[i])
     /\ Range(api.nextToken.digests) \cap Range(api.listing) = {})
    => /\ api.response.status = "error"
       /\ api.response.code = "MALFORMED_NEXT_TOKEN"
       /\ api.response.referrers = << >>

\* C20: when referrers were put after a page, the request with the
\* nextToken of that page is answered with a page that holds no referrer of
\* an earlier page, and every referrer that followed the earlier page in
\* the list of the earlier request is in the page or follows it.
C20_ResumptionAfterInsertion ==
    [][(Answered("oras") /\ ~api'.forged /\ api'.requests = api.requests + 1) =>
          LET page == api'.pages[Len(api'.pages)]
              returned == Range(Concat(api.pages))
              followed == {api.listing[i] : i \in (Len(Concat(api.pages)) + 1)..Len(api.listing)}
          IN  /\ api'.response.status = "ok"
              /\ Range(page) \cap returned = {}
              /\ \A x \in followed :
                    \/ x \in Range(page)
                    \/ /\ Len(page) > 0
                       /\ \E i \in DOMAIN api'.listing :
                             api'.listing[i] = x /\ LastReturned(api'.listing, page) < i]_vars

----------------------------------------------------------------------------
(* Referrers API: the page size *)

\* the page size the claim gives for the parameter n
EffectivePageSize(n) == IF Len(n) = 1 /\ 3 <= n[1] /\ n[1] <= 50 THEN n[1] ELSE 50

\* C21: the page size is the n of the client when n is a number from 3 to
\* 50, and 50 when n is absent, not a number, less than 3 or more than 50:
\* a list of at most that many referrers comes in one page, a longer one in
\* pages of that many referrers, the last one shorter or equal; no page of
\* a list of several pages has more than 50 referrers.
C21_PageSizeNormalised ==
    (api.route = "oras" /\ api.requests > 0) =>
        LET size == EffectivePageSize(api.n)
            N == Len(api.listing)
            page == api.response.referrers
        IN  /\ api.response.status = "ok"
            /\ size \in 3..50
            /\ N <= size => Len(page) = N /\ ~api.response.link.present
            /\ N > size =>
                  /\ Len(page) >= 1 /\ Len(page) <= size /\ Len(page) <= 50
                  /\ api.response.link.present => Len(page) = size
                  /\ ~api.nextToken.present => Len(page) = size
            /\ api.response.link.present =>
                  api.response.link.n = (IF Len(api.n) = 0 THEN << >> ELSE <<size>>)

\* a client that asked for pages of 100 referrers got the first 50 of 101
C21_Witness ==
    /\ api.route = "oras" /\ api.requests = 1
    /\ api.n = <<100>>
    /\ Len(api.listing) > 100
    /\ Len(api.response.referrers) = 50
    /\ api.response.link.present

----------------------------------------------------------------------------
(* Referrers index: deletion *)

\* the referrer links of the repository with d as subject or as referrer
ReferrerLinksNaming(st, name, d) ==
    {f \in WalkLinks(st, referrersRootPath(name)) : f[5] = d \/ f[6] = d}

\* C22: when a step removes a manifest from a repository, by the Delete of
\* the manifest store or by garbage collection, no referrer link of the
\* repository names the manifest as subject or as referrer after the step.
C22_LinksDoNotOutliveEndpoints ==
    [][\A name \in Repositories, b \in ManifestBytes :
          (/\ RevisionStat(store, name, FromBytes(b))
           /\ ~RevisionStat(store', name, FromBytes(b)))
              => ReferrerLinksNaming(store', name, FromBytes(b)) = {}]_vars

----------------------------------------------------------------------------
(* Referrers index: locality *)

\* the files below a _refs directory that the step wrote
LinksWritten(before, after) ==
    {f \in DOMAIN after.files :
        /\ Len(f) >= 3 /\ f[3] = "_refs"
        /\ f \notin DOMAIN before.files \/ after.files[f] # before.files[f]}

\* the Put that returned has a subject that is a manifest of another
\* repository and not of its own
SubjectElsewhere(st, q) ==
    /\ q.pc = "returned"
    /\ HasSubject(q.manifest)
    /\ ~ManifestExists(st, q.name, q.manifest.doc.subject[1].digest)
    /\ \E other \in Repositories \ {q.name} :
          ManifestExists(st, other, q.manifest.doc.subject[1].digest)

\* every link the Put wrote is in its own repository
LinksStayLocal(q, before, after) ==
    \A f \in LinksWritten(before, after) : f[2] = q.name

\* C23 as stated: every referrer link a Put in repository r writes is
\* under the referrers root of r and of no other repository, and a Put in r
\* of a referrer whose subject exists only in another repository succeeds
\* and creates no link in that other repository.
C23_SubjectElsewherePermitted ==
    [][\A p \in Procs :
          puts'[p] # puts[p] =>
             /\ LinksStayLocal(puts'[p], store, store')
             /\ SubjectElsewhere(store, puts'[p]) => puts'[p].err = NilError]_vars

\* C23, amended: every referrer link a Put in repository r writes is under
\* the referrers root of r and of no other repository; a Put in r of an
\* artifact manifest whose subject exists only in another repository is
\* rejected with manifest-blob-unknown for the subject and writes nothing
\* when dependencies are verified, succeeds and writes its link in r when
\* dependency verification is skipped, and creates no link in the other
\* repository.
C23_LinkLocality ==
    [][\A p \in Procs :
          puts'[p] # puts[p] =>
             LET q == puts'[p]
                 subject == q.manifest.doc.subject[1].digest
                 revision == FromBytes(q.manifest.canonical)
             IN  /\ LinksStayLocal(q, store, store')
                 /\ (SubjectElsewhere(store, q) /\ q.manifest.type \in {"oras", "ociartifact"}) =>
                       IF q.skip
                       THEN /\ q.err = NilError
                            /\ LinksWritten(store, store') \subseteq
                                   {<<"repositories", q.name, "_refs", "subjects",
                                      subject, revision, "link">>}
                            /\ <<"repositories", q.name, "_refs", "subjects",
                                   subject, revision, "link">> \in DOMAIN store'.files
                       ELSE /\ q.err.kind = "verification"
                            /\ ErrManifestBlobUnknown(subject) \in Range(q.err.errs)
                            /\ store' = store]_vars

\* a Put without dependency verification succeeded in r1 with a subject that
\* is a manifest of r2 only: its link is in r1, r2 has no referrer link
C23_Witness ==
    /\ SubjectElsewhere(store, puts["p1"])
    /\ puts["p1"].name = "r1" /\ puts["p1"].skip /\ puts["p1"].err = NilError
    /\ puts["p1"].manifest.type = "oras"
    /\ <<"repositories", "r1", "_refs", "subjects",
          puts["p1"].manifest.doc.subject[1].digest, puts["p1"].digest, "link">>
            \in DOMAIN store.files
    /\ \A f \in DOMAIN store.files : f[3] = "_refs" => f[2] = "r1"

----------------------------------------------------------------------------
(* C24 *)

\* the rule about the manifest's own header (media type, schema version)
\* that manifest m breaks, if any
HeaderErrors(m) ==
    CASE m.type = "oras" ->
             (IF m.doc.artifactType = "" THEN {errInvalidArtifactType} ELSE {})
                 \cup (IF m.doc.mediaType # MediaTypeORASArtifactManifest
                       THEN {errInvalidMediaType} ELSE {})
                 \cup (IF Len(m.doc.created) > 0 /\ ~CreatedParses(m.doc.created[1])
                       THEN {errInvalidCreatedAnnotation} ELSE {})
      [] m.type = "ociartifact" ->
             IF m.doc.mediaType # MediaTypeOCIArtifactManifest
             THEN {Err("unrecognized manifest media type", "")} ELSE {}
      [] m.type = "ocischema" ->
             IF m.doc.schemaVersion # 2
             THEN {Err("unrecognized manifest schema version", "")} ELSE {}

\* the descriptors of m that the rules about references reject in store st:
\* a blob that does not stat in the repository, a subject that the manifest
\* service does not know
BrokenReferences(st, name, m) ==
    LET blobs == CASE m.type = "ocischema" -> m.doc.config \o m.doc.layers
                   [] OTHER -> m.doc.blobs
    IN  {desc \in Range(blobs) : ~LayerStat(st, name, desc.digest)}
            \cup {desc \in Range(m.doc.subject) : ~ManifestExists(st, name, desc.digest)}

\* C24: when a Put with verification breaks rules, whatever the variant, it
\* returns a verification aggregate that holds an error for every broken
\* rule: the header errors and manifest-blob-unknown for every rejected
\* descriptor.
C24_VerificationAccumulates ==
    [][\A p \in Procs :
          LET q == puts'[p]
              header == HeaderErrors(q.manifest)
              broken == BrokenReferences(store, q.name, q.manifest)
          IN  (puts[p] # q /\ q.pc = "returned" /\ ~q.skip
               /\ (header # {} \/ broken # {})) =>
                  /\ q.err.kind = "verification"
                  /\ header \subseteq Range(q.err.errs)
                  /\ \A desc \in broken :
                         ErrManifestBlobUnknown(desc.digest) \in Range(q.err.errs)]_vars

----------------------------------------------------------------------------
(* C25 *)

\* the errors of the rules that the ORAS artifact m breaks in store st, one
\* per broken rule, in the order of the blobs
ORASBrokenRules(st, name, m) ==
    LET blobRules == {<<"blob", i>> : i \in {j \in DOMAIN m.doc.blobs :
                                                ~LayerStat(st, name, m.doc.blobs[j].digest)}}
        subjectRules == {<<"subject", i>> : i \in {j \in DOMAIN m.doc.subject :
                                                ~ManifestExists(st, name, m.doc.subject[j].digest)}}
        headerRules == {<<"header", e>> : e \in HeaderErrors(m)}
    IN  blobRules \cup subjectRules \cup headerRules

\* the error that identifies a broken rule
RuleError(m, rule) ==
    CASE rule[1] = "header" -> rule[2]
      [] rule[1] = "blob" -> ErrManifestBlobUnknown(m.doc.blobs[rule[2]].digest)
      [] rule[1] = "subject" -> ErrManifestBlobUnknown(m.doc.subject[rule[2]].digest)

\* C25: a Put with verification of an ORAS artifact that keeps every rule
\* succeeds and returns the digest of the manifest; one that breaks exactly
\* one rule fails with a verification aggregate whose first element is the
\* error of that rule.
C25_ORASOutcome ==
    [][\A p \in Procs :
          LET q == puts'[p]
              rules == ORASBrokenRules(store, q.name, q.manifest)
          IN  (puts[p] # q /\ q.pc = "returned" /\ ~q.skip /\ q.manifest.type = "oras") =>
                  /\ rules = {} =>
                         q.err = NilError /\ q.digest = FromBytes(q.manifest.canonical)
                  /\ Cardinality(rules) = 1 =>
                         /\ q.err.kind = "verification"
                         /\ Len(q.err.errs) >= 1
                         /\ \A rule \in rules : q.err.errs[1] = RuleError(q.manifest, rule)]_vars

\* an ORAS artifact whose only fault is its created annotation was refused
\* with that error first, in a repository that holds its blob and subject
C25_Witness ==
    /\ puts["p1"].pc = "returned"
    /\ puts["p1"].manifest = TypedManifest("oras", "A10")
    /\ puts["p1"].err.kind = "verification"
    /\ puts["p1"].err.errs[1] = errInvalidCreatedAnnotation
    /\ LayerStat(store, "r1", FromBytes("B1"))
    /\ ManifestExists(store, "r1", FromBytes("I1"))

----------------------------------------------------------------------------
(* C26 *)

\* the positions of aggregate errs that hold error e
PositionsOf(errs, e) == {k \in DOMAIN errs : errs[k] = e}

\* C26: in the aggregate of a Put of an OCI artifact, every descriptor with
\* an invalid digest stands for exactly two consecutive elements, the format
\* error and then manifest-blob-unknown for its digest, and for no other;
\* when every descriptor has a valid digest that exists in the repository
\* the Put verifies, whatever the media types of the descriptors.
C26_DigestValidation ==
    [][\A p \in Procs :
          LET q == puts'[p]
              m == q.manifest
              descs == m.doc.subject \o m.doc.blobs
              invalid == {i \in DOMAIN descs : ~DigestValid(descs[i].digest)}
              errs == q.err.errs
          IN  (puts[p] # q /\ q.pc = "returned" /\ ~q.skip /\ m.type = "ociartifact"
               /\ m.doc.mediaType = MediaTypeOCIArtifactManifest) =>
                  /\ Cardinality(PositionsOf(errs, ErrDigestInvalidFormat)) = Cardinality(invalid)
                  /\ \A k \in PositionsOf(errs, ErrDigestInvalidFormat) :
                         /\ k + 1 \in DOMAIN errs
                         /\ \E i \in invalid : errs[k + 1] = ErrManifestBlobUnknown(descs[i].digest)
                  /\ \A i \in invalid :
                         Cardinality(PositionsOf(errs, ErrManifestBlobUnknown(descs[i].digest)))
                             = Cardinality({j \in invalid : descs[j].digest = descs[i].digest})
                  /\ ( /\ invalid = {}
                       /\ \A i \in DOMAIN m.doc.subject :
                              ManifestExists(store, q.name, m.doc.subject[i].digest)
                       /\ \A i \in DOMAIN m.doc.blobs :
                              LayerStat(store, q.name, m.doc.blobs[i].digest) ) =>
                         q.err = NilError]_vars

\* an OCI artifact with three descriptors of invalid digest was refused, in
\* a repository that had accepted one whose descriptors carry no media type
C26_Witness ==
    /\ puts["p1"].pc = "returned"
    /\ puts["p1"].manifest = TypedManifest("ociartifact", "O4")
    /\ Cardinality(PositionsOf(puts["p1"].err.errs, ErrDigestInvalidFormat)) = 3
    /\ LayerStat(store, "r1", FromBytes("B2"))
    /\ RevisionStat(store, "r1", FromBytes("O3"))

----------------------------------------------------------------------------
(* C27 *)

\* the referrer link of the stored manifest bytes b is in place in repository
\* name and holds the digest of b
OwnLinkInPlace(st, name, b) ==
    LET link == <<"repositories", name, "_refs", "subjects",
                  Doc(b).subject[1].digest, FromBytes(b), "link">>
    IN  link \in DOMAIN st.files /\ st.files[link] = FromBytes(b)

\* what the handlers look up for manifest m is in repository name: the blobs
\* in the blob store, the subject of an artifact with the manifest service,
\* that of an image in the blob store
DependenciesStat(st, name, m) ==
    /\ \A desc \in Range(m.doc.config \o m.doc.layers \o m.doc.blobs) :
           LayerStat(st, name, desc.digest)
    /\ \A desc \in Range(m.doc.subject) :
           IF m.type = "ocischema" THEN LayerStat(st, name, desc.digest)
           ELSE ManifestExists(st, name, desc.digest)

\* two Puts of different referrers of one subject are under way or returned
\* in the same repository
PutTogether(p, o) ==
    /\ p # o
    /\ puts[p].pc # "idle" /\ puts[o].pc # "idle"
    /\ puts[p].name = puts[o].name
    /\ puts[p].manifest.canonical # puts[o].manifest.canonical
    /\ HasSubject(puts[p].manifest) /\ HasSubject(puts[o].manifest)
    /\ puts[p].manifest.doc.subject = puts[o].manifest.doc.subject

\* C27: of two Puts of different referrers of one subject that run together
\* in a repository, each one whose dependencies resolve succeeds whatever
\* the steps of the other, and the link of every Put that has succeeded is
\* in place with its own digest from then on.
C27_ConcurrentPutsDoNotInterfere ==
    [][/\ \A p, o \in Procs :
             (PutTogether(p, o) /\ puts[p].pc # "returned" /\ puts'[p].pc = "returned") =>
                 \/ puts'[p].err = NilError
                       /\ puts'[p].digest = FromBytes(puts[p].manifest.canonical)
                 \/ puts[p].pc = "verify"
                       /\ puts'[p].err.kind = "verification"
                       /\ ~DependenciesStat(store, puts[p].name, puts[p].manifest)
       /\ \A a \in acked' : HasSubject(ClientManifest(a.bytes)) =>
                                 OwnLinkInPlace(store', a.name, a.bytes)]_vars

\* both Puts have returned with success and the two links are in place
C27_Witness ==
    /\ PutTogether("p1", "p2")
    /\ \A p \in Procs : puts[p].pc = "returned" /\ puts[p].err = NilError
    /\ \A p \in Procs : OwnLinkInPlace(store, puts[p].name, puts[p].manifest.canonical)

----------------------------------------------------------------------------
(* C28 *)

\* the blobs of the stored manifest bytes b: its payload and what it references
ContentOf(b) == {FromBytes(b)} \cup DigestsOf(References(ClientManifest(b)))

\* b is filed in repository name of store st as a referrer of a manifest
\* that a tag of the repository points at
ReferrerOfTagged(st, name, b) ==
    /\ HasSubject(ClientManifest(b))
    /\ <<"repositories", name, "_refs", "subjects",
         Doc(b).subject[1].digest, FromBytes(b), "link">> \in DOMAIN st.files
    /\ TagsLookup(st, name, Doc(b).subject[1].digest) # {}

\* C28: a step of MarkAndSweep removes a blob of a referrer of a tagged
\* subject only when that referrer was not filed when the run started, that
\* is when its Put was interleaved with the run.
C28_UnsafeOnlyUnderConcurrentWrites ==
    [][\A d \in BlobEnumerate(store) \ BlobEnumerate(store') :
          \A b \in ManifestBytes :
             (gc.pc # "idle" /\ d \in ContentOf(b) /\ ReferrerOfTagged(store, "r1", b)) =>
                 ~ReferrerOfTagged(gc.before, "r1", b)]_vars

\* the run has ended without error; the Put of a referrer of the tagged I1
\* was acknowledged during the run and a blob of that referrer is gone
C28_Witness ==
    /\ gc.pc = "done" /\ gc.err = "" /\ ~gc.opts.dryRun
    /\ \E b \in LiveReferrers :
          /\ ReferrerOfTagged(store, "r1", b)
          /\ ~ReferrerOfTagged(gc.before, "r1", b)
          /\ TagsLookup(gc.before, "r1", Doc(b).subject[1].digest) # {}
          /\ puts["p1"].pc = "returned" /\ puts["p1"].err = NilError
          /\ puts["p1"].manifest.canonical = b
          /\ \E d \in ContentOf(b) : ~BlobStat(store, d)

----------------------------------------------------------------------------
(* C29 *)

\* the extension handlers that do not answer format-unsupported to content
Deciding(handlers, content) ==
    {i \in DOMAIN handlers :
        \/ handlers[i] = "ociartifact"
        \/ handlers[i] = "oras" /\ Doc(content).artifactType # ""
                                /\ Doc(content).mediaType = MediaTypeORASArtifactManifest}

\* the decoder the envelope of content selects: a built-in handler, or the
\* first extension handler that decides, or none
SelectedDecoder(handlers, content) ==
    LET sv == Doc(content).schemaVersion
        mt == Doc(content).mediaType
        deciding == Deciding(handlers, content)
    IN  CASE sv = 1 -> "schema1"
          [] sv = 2 /\ mt = MediaTypeSchema2Manifest -> "schema2"
          [] sv = 2 /\ mt = MediaTypeImageManifest -> "ocischema"
          [] sv = 2 /\ mt \in {MediaTypeManifestList, MediaTypeImageIndex} -> "manifestlist"
          [] sv = 2 /\ mt = "" -> IF content \in WithManifests THEN "manifestlist"
                                  ELSE "ocischema"
          [] OTHER -> IF deciding = {} THEN "none"
                      ELSE handlers[CHOOSE i \in deciding : \A j \in deciding : i <= j]

UnrecognizedManifestErrors ==
    {VerificationResult(<<Err("unrecognized manifest content type", "")>>),
     BareError("unrecognized manifest schema version")}

\* C29: Get of a stored payload answers what the decoder selected by the
\* envelope answers: the manifest of that decoder's type, or the error of
\* the first extension handler that does not answer format-unsupported, or
\* an unrecognized-manifest error when no handler decides; and the manifest
\* of an extension type that Put has stored is the one Get returns with the
\* same extension handlers.
C29_GetDispatch ==
    [][/\ \A p \in Procs :
             LET q == puts'[p]
                 content == store.files[blobDataPath(q.digest)]
                 decoder == SelectedDecoder(q.handlers, content)
             IN  (puts[p] # q /\ "handlers" \in DOMAIN q /\ BlobStat(store, q.digest)) =>
                     /\ decoder = "none" =>
                            q.manifest = NoManifest /\ q.err \in UnrecognizedManifestErrors
                     /\ decoder # "none" =>
                            \/ q.err = NilError /\ q.manifest = TypedManifest(decoder, content)
                            \/ /\ q.err \notin {NilError, ErrManifestFormatUnsupported}
                                           \cup UnrecognizedManifestErrors
                               /\ q.manifest = NoManifest
                               /\ decoder = "ociartifact"
                               /\ Doc(content).mediaType # MediaTypeOCIArtifactManifest
       /\ \A p \in Procs :
             LET q == puts'[p]
             IN  (puts[p] # q /\ "handlers" \notin DOMAIN q /\ q.err = NilError) =>
                     ManifestStoreGet(ExtensionManifestHandlers, store', q.name, q.digest)
                         = GetResult(q.manifest, NilError)]_vars

\* a Get of an ORAS artifact from a registry whose OCI artifact handler comes
\* first was answered with that handler's error, and the repository holds
\* an image index without media type
C29_Witness ==
    /\ "handlers" \in DOMAIN puts["p1"]
    /\ puts["p1"].handlers = <<"ociartifact", "oras">>
    /\ puts["p1"].digest = FromBytes("A1")
    /\ puts["p1"].err.kind = "error"
    /\ ManifestStoreGet(<< >>, store, "r1", FromBytes("IX0")).manifest.type = "manifestlist"

----------------------------------------------------------------------------
(* C30 *)

\* the descriptors of image m that carry a manifest media type and a valid
\* digest
ManifestTypedReferences(m) ==
    {desc \in Range(References(m)) :
        desc.mediaType \in ManifestMediaTypes /\ DigestValid(desc.digest)}

----------------------------------------------------------------------------
(* Token resolution *)

\* the largest index of the list at which a digest of the token occurs
LargestMatch(list, token) ==
    CHOOSE i \in DOMAIN list :
        /\ list[i] \in Range(token.digests)
        /\ \A j \in DOMAIN list : list[j] \in Range(token.digests) => j <= i

\* C31: the page returned for a request whose nextToken has a digest in the
\* list starts at the element after the largest index at which a digest of
\* the token occurs, and holds no referrer at or before that index, whatever
\* the length of the list (lists no longer than the page size included).
C31_TokenResolution ==
    (/\ api.route = "oras" /\ api.requests > 0
     /\ api.nextToken.present /\ api.nextToken.base64
     /\ \A i \in DOMAIN api.nextToken.digests : DigestValid(api.nextToken.digests[i])
     /\ Range(api.nextToken.digests) \cap Range(api.listing) # {}
     /\ api.response.status = "ok")
    => LET page == DigestsOfList(api.response.referrers)
           k == LargestMatch(api.listing, api.nextToken)
       IN  /\ k + Len(page) <= Len(api.listing)
           /\ page = SubSeq(api.listing, k + 1, k + Len(page))
           /\ \A i \in 1..k : api.listing[i] \notin Range(page)

\* C37: for every list and every nextToken whose digests parse, getReferrers
\* produces a response or a registered error, with no slice access out of
\* range; when the largest-index match of the token is the last element of
\* a list longer than the page size, the response is an empty referrers
\* list without a Link header.
C37_CompletesNormally ==
    (/\ api.route = "oras" /\ api.requests > 0
     /\ api.nextToken.present /\ api.nextToken.base64
     /\ \A i \in DOMAIN api.nextToken.digests : DigestValid(api.nextToken.digests[i]))
    => /\ api.response.status \in {"ok", "error"}
       /\ (/\ Len(api.listing) > PageSize(api.n)
           /\ Range(api.nextToken.digests) \cap Range(api.listing) # {}
           /\ LargestMatch(api.listing, api.nextToken) = Len(api.listing))
          => /\ api.response.status = "ok"
             /\ api.response.referrers = << >>
             /\ ~api.response.link.present

----------------------------------------------------------------------------
(* Vacuum.RemoveManifest on a storage driver that may fail *)

\* an error of the storage driver: driver.PathNotFoundError, or another
\* error ("io"), for the path of the call; no error has kind ""
NoDriverError == [kind |-> "", path |-> << >>]

DriverError(kind, path) == [kind |-> kind, path |-> path]

\* driver.Stat and driver.Delete of path on a driver that fails with an error
\* other than path-not-found on the paths of faults
DriverStat(st, path, faults) ==
    IF path \in faults THEN DriverError("io", path)
    ELSE IF ~PathExists(st, path) THEN DriverError("PathNotFound", path)
    ELSE NoDriverError

DriverDelete(st, path, faults) ==
    IF DriverStat(st, path, faults) # NoDriverError
    THEN [store |-> st, err |-> DriverStat(st, path, faults)]
    ELSE [store |-> DeleteAll(st, {path}), err |-> NoDriverError]

\* the loop over the tags of Vacuum.RemoveManifest, from the i-th tag
RECURSIVE RemoveTagReferences(_, _, _, _, _, _)
RemoveTagReferences(st, name, dgst, tags, faults, i) ==
    IF i > Len(tags) THEN [store |-> st, err |-> NoDriverError]
    ELSE LET tagsPath == manifestTagIndexEntryPath(name, tags[i], dgst)
             stat == DriverStat(st, tagsPath, faults)
             del == DriverDelete(st, tagsPath, faults)
         IN  IF stat.kind = "PathNotFound"
             THEN RemoveTagReferences(st, name, dgst, tags, faults, i + 1)
             ELSE IF stat # NoDriverError THEN [store |-> st, err |-> stat]
             ELSE IF del.err # NoDriverError THEN del
             ELSE RemoveTagReferences(del.store, name, dgst, tags, faults, i + 1)

\* Vacuum.RemoveManifest: the tag index entries, the revision directory, the
\* referrers directory of the manifest.  The result of the last Delete is
\* not assigned: err is still the nil of pathFor.
VacuumRemoveManifest(st, name, dgst, tags, faults) ==
    LET untagged == RemoveTagReferences(st, name, dgst, tags, faults, 1)
        manifest == DriverDelete(untagged.store, manifestRevisionPath(name, dgst), faults)
        refs == DriverDelete(manifest.store, referrersSubjectPath(name, dgst), faults)
    IN  IF untagged.err # NoDriverError THEN untagged
        ELSE IF manifest.err # NoDriverError THEN manifest
        ELSE [store |-> refs.store, err |-> NoDriverError]

\* a call of Vacuum.RemoveManifest: its arguments, the paths on which the
\* driver fails and the error returned
VacuumCall(name, dgst, tags, faults, err) ==
    [pc |-> "idle", ran |-> TRUE, name |-> name, digest |-> dgst, tags |-> tags,
     faults |-> faults, err |-> err]

RemoveManifest(name, dgst, tags, faults) ==
    /\ gc.pc = "idle"
    /\ \E r \in {VacuumRemoveManifest(store, name, dgst, tags, faults)} :
          /\ store' = r.store
          /\ gc' = VacuumCall(name, dgst, tags, faults, r.err)
    /\ UNCHANGED <<puts, acked, api>>

VacuumManifests == {"I1", "A1"}

TagLists == {<< >>, <<"t1">>, <<"t1", "t2">>}

\* the paths of a call: the tag index entries in the order of tags, the
\* revision directory, the referrers directory
RemoveManifestSteps(name, dgst, tags) ==
    [i \in DOMAIN tags |-> manifestTagIndexEntryPath(name, tags[i], dgst)]
        \o <<manifestRevisionPath(name, dgst), referrersSubjectPath(name, dgst)>>

NextVacuum ==
    \/ \E b \in {"L1", "B1"} : PushBlob("r1", b)
    \/ \E b \in VacuumManifests : PutManifest("r1", b)
    \/ \E t \in Tags : Tag("r1", t, FromBytes("I1"))
    \/ Untag("r1", "t1")
    \/ \E tags \in TagLists :
          \E faults \in SUBSET Range(RemoveManifestSteps("r1", FromBytes("I1"), tags)) :
              RemoveManifest("r1", FromBytes("I1"), tags, faults)

SpecVacuum == Init /\ [][NextVacuum]_vars

\* the first step of the call on which the driver fails for another reason
\* than a missing path (0: none)
FirstHardError(steps, faults) ==
    IF \A i \in DOMAIN steps : steps[i] \notin faults THEN 0
    ELSE CHOOSE i \in DOMAIN steps :
            steps[i] \in faults /\ \A j \in 1..(i - 1) : steps[j] \notin faults

\* C32: a missing tag index entry or a missing referrers directory never
\* makes Vacuum.RemoveManifest fail; any other storage error on a tag index
\* entry, the revision directory or the referrers directory is returned,
\* the first one, and no later deletion step is performed.
C32_RemoveManifestErrorPolicy ==
    [][(gc' # gc /\ "faults" \in DOMAIN gc') =>
          LET call == gc'
              steps == RemoveManifestSteps(call.name, call.digest, call.tags)
              k == FirstHardError(steps, call.faults)
              revision == manifestRevisionPath(call.name, call.digest)
          IN  /\ (k = 0 /\ PathExists(store, revision)) =>
                    /\ call.err = NoDriverError
                    /\ \A i \in DOMAIN steps : ~PathExists(store', steps[i])
              /\ (k # 0 /\ (PathExists(store, revision) \/ k < Len(steps))) =>
                    /\ call.err = DriverError("io", steps[k])
                    /\ \A i \in k..Len(steps) :
                          PathExists(store', steps[i]) = PathExists(store, steps[i])
                    /\ \A i \in 1..(k - 1) : ~PathExists(store', steps[i])]_vars

----------------------------------------------------------------------------
(* A Put whose referrer link cannot be written *)

\* the Put of p stood at indexReferrers and the write of the link failed
LinkWriteFailed(p) ==
    /\ puts[p].pc = "index"
    /\ HasSubject(puts[p].manifest)
    /\ puts'[p].pc = "returned"
    /\ puts'[p].err # NilError

\* after the step the payload and the revision link of the Put of p are
\* stored and Get returns the manifest
PayloadKept(p) ==
    LET q == puts[p]
        d == FromBytes(Payload(q.manifest).bytes)
    IN  /\ blobDataPath(d) \in DOMAIN store'.files
        /\ store'.files[blobDataPath(d)] = Payload(q.manifest).bytes
        /\ RevisionStat(store', q.name, d)
        /\ ManifestGet(store', q.name, d) = q.manifest

\* the referrer link of the Put of p (subject, revision) after the step
LinkOfPut(p) ==
    LET q == puts[p]
    IN  referrersLinkPath(q.name, q.manifest.doc.subject[1].digest,
                          FromBytes(Payload(q.manifest).bytes)) \in DOMAIN store'.files

\* C33 (as stated): when the write of the referrer link fails after the
\* payload was stored, Put returns the error and no digest, the payload and
\* its revision link stay and Get returns the manifest, and no referrer link
\* for the pair exists.
C33_FailFastWithoutRollback ==
    [][\A p \in Procs :
          LinkWriteFailed(p) =>
              /\ puts'[p].digest = ""
              /\ PayloadKept(p)
              /\ ~LinkOfPut(p)]_vars

\* C33 (amended): as above, and the failed Put writes nothing: a referrer
\* link for the pair exists only if an earlier Put of the same payload in
\* the repository had succeeded.
C33_FailFastKeepsEarlierLink ==
    [][\A p \in Procs :
          LinkWriteFailed(p) =>
              /\ puts'[p].digest = ""
              /\ PayloadKept(p)
              /\ store' = store
              /\ LinkOfPut(p) <=> puts[p].repeat]_vars

\* the first Put of an ORAS artifact returned the storage error of its link
\* write: the artifact is stored and retrievable, its subject has no link
C33_Witness ==
    /\ puts["p1"].pc = "returned"
    /\ puts["p1"].manifest = ClientManifest("A1")
    /\ puts["p1"].err = BareError("storage driver error")
    /\ puts["p1"].digest = ""
    /\ ~puts["p1"].repeat
    /\ ManifestGet(store, "r1", FromBytes("A1")) = ClientManifest("A1")
    /\ WalkLinks(store, referrersRootPath("r1")) = {}

----------------------------------------------------------------------------
(* Subjects without referrers, links to blobs that are gone *)

\* MarkAndSweep has returned: the registry serves requests again; after is
\* the store the run has left
EndMarkAndSweep ==
    /\ gc.pc = "done"
    /\ gc' = [after |-> store] @@ [gc EXCEPT !.pc = "idle"]
    /\ UNCHANGED <<store, puts, acked, api>>

MissingManifests == {"I1", "A1"}

NextMissing ==
    \/ \E b \in DeleteBlobs : PushBlob("r1", b)
    \/ \E b \in MissingManifests : PutManifest("r1", b)
    \/ Tag("r1", "t1", FromBytes("I1"))
    \/ Untag("r1", "t1")
    \/ \E b \in MissingManifests : DeleteManifest("r1", FromBytes(b))
    \/ \E removeUntagged \in BOOLEAN :
          MarkAndSweep([dryRun |-> FALSE, removeUntagged |-> removeUntagged])
    \/ EndMarkAndSweep
    \/ GetFirstPage("r1", FromBytes("I1"), "", << >>)
    \/ GetOCIReferrers("r1", FromBytes("I1"), "")

SpecMissing == Init /\ [][NextMissing]_vars

\* the targets of the referrer links filed under the subject
LinkTargets(st, name, subject) ==
    {st.files[f] : f \in WalkLinks(st, referrersSubjectPath(name, subject))}

\* the targets that the blob store does not know
DanglingTargets(st, name, subject) ==
    {d \in LinkTargets(st, name, subject) : ~BlobStat(st, d)}

\* every referrer link of the repository whose target the blob store knows
\* points to a manifest that Get returns
KnownTargetsRetrievable(st, name) ==
    \A f \in WalkLinks(st, referrersRootPath(name)) :
        BlobStat(st, st.files[f]) => ManifestGet(st, name, st.files[f]) # NoManifest

\* C34: when the referrers root of the subject does not exist, the ORAS
\* listing and the OCI listing return an empty result and no error, and the
\* walks of the garbage collector that start at that subject succeed and
\* the run goes on with the next manifest; a referrer link whose target the
\* blob store does not know is skipped and the walk is not aborted.
C34_MissingReferrersTolerated ==
    [][LET subject == FromBytes("I1")
           root == referrersSubjectPath("r1", subject)
           known == LinkTargets(store, "r1", subject) \ DanglingTargets(store, "r1", subject)
           manifests == ManifestLinks(store, "r1")
       IN  /\ (api' # api /\ api'.requests > 0) =>
                 /\ ~PathExists(store, root) =>
                        api'.response.status = "ok" /\ api'.response.referrers = << >>
                 /\ (\A d \in known : ManifestGet(store, "r1", d) # NoManifest) =>
                        /\ api'.response.status = "ok"
                        /\ Range(DigestsOfList(api'.response.referrers)) \subseteq known
           /\ (gc' # gc /\ gc'.ran) =>
                 /\ \A d \in manifests :
                       ~PathExists(store, referrersSubjectPath("r1", d)) =>
                           /\ MarkWalk(store, "r1", d) = [err |-> FALSE, marks |-> {}]
                           /\ SweepWalk(store, "r1", d) = [err |-> FALSE, index |-> {}, marks |-> {}]
                 /\ (/\ \A d \in manifests : ManifestGet(store, "r1", d) # NoManifest
                     /\ KnownTargetsRetrievable(store, "r1")
                     /\ gc'.opts.removeUntagged => TagsDirExists(store, "r1")) =>
                       /\ gc'.err # "failed to mark"
                       /\ ~gc'.opts.removeUntagged =>
                             \A d \in manifests :
                                 LET man == ManifestGet(store, "r1", d)
                                 IN  Payload(man).mediaType # MediaTypeORASArtifactManifest =>
                                         {d} \cup DigestsOf(References(man)) \subseteq gc'.markSet]_vars

\* a run started on a repository where the only link under the image's
\* referrers root pointed to a blob that was gone; the run marked the image
\* and ended without error, and the listing of the image's referrers was
\* answered with an empty list
C34_Witness ==
    /\ gc.ran /\ gc.err = ""
    /\ LinkTargets(gc.before, "r1", FromBytes("I1")) # {}
    /\ DanglingTargets(gc.before, "r1", FromBytes("I1")) = LinkTargets(gc.before, "r1", FromBytes("I1"))
    /\ FromBytes("I1") \in gc.markSet
    /\ DanglingTargets(store, "r1", FromBytes("I1")) # {}
    /\ api.requests > 0
    /\ api.response.status = "ok" /\ api.response.referrers = << >>

----------------------------------------------------------------------------
(* GC extension of the ORAS namespace: artifacts kept by reference counts   *)

\* orasGCHandler: artifactManifestIndex maps a subject digest to the list of
\* artifacts indexed for deletion, artifactMarkSet a digest to its count
NewGCHandler == [artifactManifestIndex |-> << >>, artifactMarkSet |-> << >>]

\* gc.artifactMarkSet[d], zero for a digest that is not a key of the map
RefCount(h, d) ==
    IF d \in DOMAIN h.artifactMarkSet THEN h.artifactMarkSet[d] ELSE 0

\* (variant: the count is left as it is)
AddRefKeeping(h, d, k) == h

\* gc.artifactMarkSet[d] += k
AddRef(h, d, k) ==
    [h EXCEPT !.artifactMarkSet =
        [e \in (DOMAIN h.artifactMarkSet) \cup {d} |->
            RefCount(h, e) + (IF e = d THEN k ELSE 0)]]

RECURSIVE AddRefs(_, _, _)

\* the loop over the descriptors of References()
AddRefs(h, digests, k) ==
    IF digests = << >> THEN h
    ELSE CHOOSE r \in {AddRefs(h1, Tail(digests), k) : h1 \in {AddRef(h, Head(digests), k)}} : TRUE

RECURSIVE orasEnumerateReferrerLinks(_, _, _, _)
RECURSIVE orasArtifactSweepIngestor(_, _, _)

\* artifactSweepIngestor of the extension: what it appends to the index of
\* the subject the walk started from.  A tagged artifact is left out with
\* its descendants
orasArtifactSweepIngestor(st, name, referrerRevision) ==
    IF TagsLookup(st, name, referrerRevision) # {} THEN << >>
    ELSE <<referrerRevision>>
            \o (IF ~PathExists(st, referrersSubjectPath(name, referrerRevision)) THEN << >>
                ELSE orasEnumerateReferrerLinks(st, name,
                         EnumeratedReferrers(st, name, referrerRevision), 1))

\* enumerateReferrerLinks with artifactSweepIngestor: the links in the order
\* of the walk, from the i-th on
orasEnumerateReferrerLinks(st, name, links, i) ==
    IF i > Len(links) THEN << >>
    ELSE orasArtifactSweepIngestor(st, name, links[i])
            \o orasEnumerateReferrerLinks(st, name, links, i + 1)

\* orasGCHandler.Mark: an artifact and the blobs it references are counted
\* (the core is told to do nothing more for it), for any other manifest the
\* artifacts below it are indexed
orasMark(h, st, name, manifest, dgst) ==
    IF Payload(manifest).mediaType = MediaTypeORASArtifactManifest
    THEN CHOOSE r \in {[handler |-> AddRefs(h1, DigestsOfList(References(manifest)), 1),
                        ret |-> FALSE] : h1 \in {AddRef(h, dgst, 1)}} : TRUE
    ELSE CHOOSE r \in
            {[handler |->
                 [h EXCEPT !.artifactManifestIndex =
                     [d \in (DOMAIN h.artifactManifestIndex) \cup {dgst} |->
                         IF d = dgst THEN indexed ELSE h.artifactManifestIndex[d]]],
              ret |-> TRUE]
             : indexed \in {orasEnumerateReferrerLinks(st, name,
                                EnumeratedReferrers(st, name, dgst), 1)}} : TRUE

RECURSIVE orasRemoveArtifacts(_, _, _, _, _)

\* the loop of RemoveManifest over the artifacts indexed under the subject:
\* Get the artifact, take one from its count and from the count of each of
\* its blobs, delete its revision and its referrers folder
orasRemoveArtifacts(h, st, name, artifacts, removed) ==
    IF artifacts = << >> THEN [handler |-> h, store |-> st, removed |-> removed, err |-> ""]
    ELSE CHOOSE r \in
            {IF artifactManifest = NoManifest
             THEN [handler |-> h, store |-> st, removed |-> removed,
                   err |-> "failed to get artifact manifest"]
             ELSE CHOOSE q \in
                     {orasRemoveArtifacts(h1, st1, name, Tail(artifacts),
                                          removed \cup {[name |-> name, digest |-> Head(artifacts)]})
                      : h1 \in {AddRefs(AddRef(h, Head(artifacts), -1),
                                        DigestsOfList(References(artifactManifest)), -1)},
                        st1 \in {DeleteAll(st, {manifestRevisionPath(name, Head(artifacts)),
                                                referrersSubjectPath(name, Head(artifacts))})}} : TRUE
             : artifactManifest \in {ManifestGet(st, name, Head(artifacts))}} : TRUE

\* orasGCHandler.RemoveManifest: the referrers folder of the manifest, then
\* the artifacts indexed under its digest
orasRemoveManifest(h, st, name, dgst) ==
    CHOOSE r \in
        {orasRemoveArtifacts(h, st1, name,
                             IF dgst \in DOMAIN h.artifactManifestIndex
                             THEN h.artifactManifestIndex[dgst] ELSE << >>,
                             {})
         : st1 \in {DeleteAll(st, {referrersSubjectPath(name, dgst)})}} : TRUE

\* orasGCHandler.SweepBlobs: the digests whose count is positive are added
\* to the mark set
orasSweepBlobs(h, markSet) ==
    markSet \cup {d \in DOMAIN h.artifactMarkSet : h.artifactMarkSet[d] > 0}

\* the manifests in the order MarkAndSweep enumerates them: repository by
\* repository, the revisions in the order of the walk
EnumeratedManifests(st) ==
    LET ofRepo(name) ==
            [i \in 1..Cardinality(ManifestLinks(st, name)) |->
                [name |-> name,
                 digest |-> CHOOSE d \in ManifestLinks(st, name) :
                     Cardinality({e \in ManifestLinks(st, name) : WalkRank(e) < WalkRank(d)}) = i - 1]]
        present == SelectSeq(RepositoryOrder, LAMBDA name : name \in RepositoryNames(st))
    IN  IF Len(present) = 0 THEN << >>
        ELSE IF Len(present) = 1 THEN << >> \o ofRepo(present[1])
        ELSE (<< >> \o ofRepo(present[1])) \o ofRepo(present[2])

NoExtensionMark == [handler |-> NewGCHandler, markSet |-> {}, manifestArr |-> << >>, err |-> ""]

\* the callback of the manifest enumeration with a GC extension: the hook
\* sees the manifest first and tells whether the core goes on with it
ExtensionMarkManifest(mk, st, name, dgst, opts) ==
    CHOOSE res \in
        {IF manifest = NoManifest THEN [mk EXCEPT !.err = "failed to mark"]
         ELSE CHOOSE q \in
                 {IF ~r.ret THEN [mk EXCEPT !.handler = r.handler]
                  ELSE IF opts.removeUntagged /\ TagsLookup(st, name, dgst) = {}
                  THEN IF ~TagsDirExists(st, name) THEN [mk EXCEPT !.err = "failed to mark"]
                       ELSE [mk EXCEPT !.handler = r.handler,
                                       !.manifestArr = Append(@, [name |-> name, digest |-> dgst,
                                                                  tags |-> TagsAll(st, name)])]
                  ELSE [mk EXCEPT !.handler = r.handler,
                                  !.markSet = @ \cup {dgst} \cup DigestsOf(References(manifest))]
                  : r \in {orasMark(mk.handler, st, name, manifest, dgst)}} : TRUE
         : manifest \in {ManifestGet(st, name, dgst)}} : TRUE

RECURSIVE ExtensionMark(_, _, _, _)

\* the mark phase with a GC extension, from the i-th manifest on
ExtensionMark(mk, st, manifests, opts) ==
    IF manifests = << >> \/ mk.err # "" THEN mk
    ELSE CHOOSE r \in
            {ExtensionMark(mk1, st, Tail(manifests), opts)
             : mk1 \in {ExtensionMarkManifest(mk, st, Head(manifests).name,
                                             Head(manifests).digest, opts)}} : TRUE

RECURSIVE ExtensionSweep(_, _, _, _)

\* the sweep of the manifests scheduled for deletion: Vacuum.RemoveManifest
\* deletes the tag index entries and the revision, then calls the hook
ExtensionSweep(h, st, manifestArr, removed) ==
    IF manifestArr = << >> THEN [handler |-> h, store |-> st, removed |-> removed, err |-> ""]
    ELSE CHOOSE res \in
            {IF r.err # ""
             THEN [handler |-> r.handler, store |-> r.store, removed |-> removed \cup r.removed,
                   err |-> "failed to delete manifest"]
             ELSE ExtensionSweep(r.handler, r.store, Tail(manifestArr), removed \cup r.removed)
             : r \in {orasRemoveManifest(
                          h,
                          DeleteAll(st, {manifestTagIndexEntryPath(Head(manifestArr).name, t,
                                                                   Head(manifestArr).digest)
                                            : t \in Head(manifestArr).tags}
                                        \cup {manifestRevisionPath(Head(manifestArr).name,
                                                                   Head(manifestArr).digest)}),
                          Head(manifestArr).name, Head(manifestArr).digest)}} : TRUE

\* what is kept of a run with the extension: the handler after the mark
\* phase and at the end, the artifacts the hook removed
ExtensionRecord(opts, mk, handler, removed, markSet, removedBlobs, err) ==
    [NoGC EXCEPT !.ran = TRUE, !.opts = opts, !.before = store, !.markSet = markSet,
                 !.manifestArr = Range(mk.manifestArr), !.removedBlobs = removedBlobs,
                 !.err = err, !.pc = "done"]
        @@ [marked |-> mk.handler, handler |-> handler, removedArtifacts |-> removed,
            coreMarkSet |-> mk.markSet]

\* MarkAndSweep with opts.GCExtensionHandlers = the ORAS handler, run with no
\* concurrent writes
MarkAndSweepWithExtension(opts) ==
    /\ gc.pc = "idle"
    /\ \A p \in Procs : puts[p].pc = "idle"
    /\ UNCHANGED <<puts, acked, api>>
    /\ \E mk \in {ExtensionMark(NoExtensionMark, store, EnumeratedManifests(store), opts)} :
         IF mk.err # ""
         THEN /\ store' = store
              /\ gc' = ExtensionRecord(opts, mk, mk.handler, {}, mk.markSet, {}, mk.err)
         ELSE \E sw \in {IF opts.dryRun
                         THEN [handler |-> mk.handler, store |-> store, removed |-> {}, err |-> ""]
                         ELSE ExtensionSweep(mk.handler, store, mk.manifestArr, {})} :
                IF sw.err # ""
                THEN /\ store' = sw.store
                     /\ gc' = ExtensionRecord(opts, mk, sw.handler, sw.removed, mk.markSet, {}, sw.err)
                ELSE \E markSet \in {orasSweepBlobs(sw.handler, mk.markSet)} :
                       \E deleteSet \in {DeleteSet(sw.store, markSet)} :
                          /\ store' = BlobSweep(sw.store, deleteSet, opts)
                          /\ gc' = ExtensionRecord(opts, mk, sw.handler, sw.removed, markSet,
                                                   IF opts.dryRun THEN {} ELSE deleteSet, "")

ExtensionBlobs == {"L1", "B1", "B2"}

ExtensionManifests == {"I1", "A1", "A2"}

NextExtension ==
    \/ \E name \in Repositories : \E b \in ExtensionBlobs : PushBlob(name, b)
    \/ \E name \in Repositories : \E b \in ExtensionManifests : PutManifest(name, b)
    \/ \E name \in Repositories : \E b \in ExtensionManifests : Tag(name, "t1", FromBytes(b))
    \/ \E name \in Repositories : Untag(name, "t1")
    \/ \E opts \in GCOpts : MarkAndSweepWithExtension(opts)

SpecExtension == Init /\ [][NextExtension]_vars

\* the artifact manifests of the store, one for each repository that holds
\* the revision: what the mark phase visits
ArtifactVisits(st) ==
    {x \in AllManifests(st) :
        Payload(ManifestGet(st, x.name, x.digest)).mediaType = MediaTypeORASArtifactManifest}

\* how many times the artifacts X, as stored in st, count the digest d: once
\* for the artifact of that digest, once for each descriptor of References()
Uses(st, X, d) ==
    Cardinality({x \in X : x.digest = d})
        + Cardinality({p \in UNION {{<<x, i>> : i \in DOMAIN References(ManifestGet(st, x.name, x.digest))}
                                       : x \in X} :
                          References(ManifestGet(st, p[1].name, p[1].digest))[p[2]].digest = d})

\* the blobs the artifacts X, as stored in st, reference
BlobsOf(st, X) ==
    UNION {DigestsOf(References(ManifestGet(st, x.name, x.digest))) : x \in X}

ExtensionRan == gc.pc = "done" /\ "handler" \in DOMAIN gc

AllDigests == {FromBytes(b) : b \in BlobBytes \cup ManifestBytes}

\* C35: after the mark phase the count of a digest is the number of times the
\* visited artifact manifests count it; at the end of the sweep it is that
\* number less the uses by the artifacts RemoveManifest removed; SweepBlobs
\* adds to the mark set exactly the digests with a positive count; so after
\* a completed run a blob that a removed and a surviving artifact reference
\* is still there, and a blob that only removed artifacts referenced is gone
C35_ReferenceCounting ==
    (ExtensionRan /\ gc.err # "failed to mark") =>
        /\ \A d \in AllDigests :
              /\ RefCount(gc.marked, d) = Uses(gc.before, ArtifactVisits(gc.before), d)
              /\ RefCount(gc.handler, d)
                    = RefCount(gc.marked, d) - Uses(gc.before, gc.removedArtifacts, d)
        /\ gc.err = "" =>
              /\ gc.markSet = gc.coreMarkSet \cup {d \in AllDigests : RefCount(gc.handler, d) > 0}
              /\ ~gc.opts.dryRun =>
                    \A d \in BlobsOf(gc.before, gc.removedArtifacts) :
                       /\ d \in BlobsOf(store, ArtifactVisits(store)) => BlobStat(store, d)
                       /\ (\A x \in AllManifests(store) :
                              d \notin DigestsOf(References(ManifestGet(store, x.name, x.digest))))
                            => ~BlobStat(store, d)

\* a completed run has removed the artifacts of r2: the blob B1, which the
\* artifact A1 kept in r1 references as well, is still there, the blob B2 of
\* the removed A2 is gone
C35_Witness ==
    /\ ExtensionRan /\ gc.err = "" /\ ~gc.opts.dryRun
    /\ {[name |-> "r2", digest |-> FromBytes("A1")], [name |-> "r2", digest |-> FromBytes("A2")]}
          \subseteq gc.removedArtifacts
    /\ [name |-> "r1", digest |-> FromBytes("A1")] \in ArtifactVisits(store)
    /\ RefCount(gc.marked, FromBytes("B1")) = 2 /\ RefCount(gc.handler, FromBytes("B1")) = 1
    /\ BlobStat(store, FromBytes("B1"))
    /\ BlobStat(gc.before, FromBytes("B2")) /\ ~BlobStat(store, FromBytes("B2"))

\* C36: after a run with the extension, an artifact that had a tag when the
\* run started was not removed by the hook, and it and every manifest below
\* it through referrer links still have their revision link, their manifest
\* blob and the blobs they reference.
C36_TaggedArtifactsExempt ==
    ExtensionRan =>
        \A x \in ArtifactVisits(gc.before) :
            TagsLookup(gc.before, x.name, x.digest) # {} =>
                /\ x \notin gc.removedArtifacts
                /\ \A d \in ReferrerClosure(gc.before, x.name, {x.digest}) :
                       ManifestIntact(store, gc.before, x.name, d)

----------------------------------------------------------------------------
(* What a run of MarkAndSweep leaves behind *)

\* every revision link of every repository resolves: Get returns the manifest
RevisionsResolve(st) ==
    \A name \in Repositories : \A d \in ManifestLinks(st, name) :
        BlobStat(st, d) /\ ManifestGet(st, name, d) # NoManifest

\* C38: after a completed MarkAndSweep with DryRun=false on a store where
\* every revision link resolved, every revision link that is left in a
\* repository points to a manifest blob of the blob store, and Get returns
\* the manifest.
C38_NoDanglingManifest ==
    (GCSwept /\ gc.pc = "done" /\ RevisionsResolve(gc.before)) => RevisionsResolve(store)

TwiceManifests == {"I1", "A1", "A2"}

NextTwice ==
    \/ \E b \in BlobBytes : PushBlob("r1", b)
    \/ \E b \in TwiceManifests : PutManifest("r1", b)
    \/ Tag("r1", "t1", FromBytes("I1"))
    \/ Untag("r1", "t1")
    \/ \E opts \in GCOpts : MarkAndSweep(opts)
    \/ EndMarkAndSweep

SpecTwice == Init /\ [][NextTwice]_vars

\* C39: a MarkAndSweep that starts from the store a completed run with the
\* same options has left, with no write in between, leaves the store as it
\* is.
C39_Idempotent ==
    [][(/\ gc.pc = "idle" /\ gc.ran /\ gc.err = ""
        /\ gc.after = store
        /\ gc'.pc = "done" /\ gc'.opts = gc.opts) => store' = store]_vars

----------------------------------------------------------------------------
(* Termination of MarkAndSweep *)

\* MarkAndSweep is one call that runs to its return: a step of it that can
\* be taken is taken
MarkAndSweepStep ==
    \/ MarkStep
    \/ EndMark
    \/ SweepManifestStep
    \/ SweepArtifactStep
    \/ EnumerateBlobsStep
    \/ BlobSweepStep

SpecSweepFair == SpecSweep /\ WF_vars(MarkAndSweepStep)

RECURSIVE IngestorCalls(_, _, _, _, _)

\* the calls of the ingestor during EnumerateReferrerLinks over the links
\* below the root of the subject, from the i-th link on: each call is the
\* link it was made for (subject, referrer); artifactMarkIngestor walks the
\* referrers of the referrer before the walk goes on, an error ends the walk
IngestorCalls(st, name, subject, links, i) ==
    IF i > Len(links) THEN [err |-> FALSE, calls |-> << >>]
    ELSE IF ManifestGet(st, name, links[i]) = NoManifest
    THEN [err |-> TRUE, calls |-> <<<<subject, links[i]>>>>]
    ELSE CHOOSE r \in
            {IF below.err THEN [err |-> TRUE, calls |-> <<<<subject, links[i]>>>> \o below.calls]
             ELSE CHOOSE q \in {[err |-> rest.err,
                                 calls |-> (<<<<subject, links[i]>>>> \o below.calls) \o rest.calls]
                                : rest \in {IngestorCalls(st, name, subject, links, i + 1)}} : TRUE
             : below \in {IngestorCalls(st, name, links[i],
                                        EnumeratedReferrers(st, name, links[i]), 1)}} : TRUE

\* the walk that the mark callback starts for a manifest
ReferrerWalk(st, name, subject) ==
    IngestorCalls(st, name, subject, EnumeratedReferrers(st, name, subject), 1).calls

\* no manifest is reached from itself through referrer links
Acyclic(st) ==
    \A name \in Repositories : \A d \in AllDigests :
        d \notin ReferrerClosure(st, name, ReferrerLinkTargets(st, referrersSubjectPath(name, d)))

\* C40: on a store whose referrer links have no cycle, a MarkAndSweep that
\* was called returns (with or without error) when its steps are taken
\* fairly, and the referrer walk of a manifest calls the ingestor at most
\* once for each referrer link, for links of the repository only.
C40_Terminates ==
    /\ [](Acyclic(store) =>
            \A x \in AllManifests(store) :
                /\ NoRepeats(ReferrerWalk(store, x.name, x.digest))
                /\ Len(ReferrerWalk(store, x.name, x.digest))
                      <= Cardinality(WalkLinks(store, referrersRootPath(x.name))))
    /\ ((gc.pc \notin {"idle", "done"} /\ Acyclic(store)) ~> gc.pc = "done")

\* a run over the image I1 with its referrers A1 and O1 and the referrer A2
\* of A1 has returned: the walk from I1 went two levels deep
C40_Witness ==
    /\ gc.pc = "done" /\ gc.ran /\ gc.err = "" /\ ~gc.opts.dryRun
    /\ [name |-> "r1", digest |-> FromBytes("I1")] \in gc.seen
    /\ Acyclic(gc.before)
    /\ Len(ReferrerWalk(gc.before, "r1", FromBytes("I1"))) = 3
    /\ gc.removedBlobs # {}

=============================================================================
